---- MODULE Spec2Model ----
(***************************************************************************)
(* Verification model of the virtio drivers of drivers/virtio.cc and       *)
(* drivers/virtio-rng.cc (the entropy device and the network device        *)
(* that shares the file).                                                  *)
(*                                                                         *)
(* Two state machines share the module:                                    *)
(*   SpecRng  the entropy device: rng::worker / rng::refill (the producer  *)
(*            thread, which blocks in virtio_driver::wait_for_queue),      *)
(*            rng::get_random_bytes (the consumers), the host side of the  *)
(*            RNG vring and the interrupt that wakes the producer.         *)
(*   SpecTx   the network TX path: if_transmit / net::tx_locked /          *)
(*            net::tx_gc run by several threads, and the host side of the  *)
(*            TX vrings.                                                   *)
(*                                                                         *)
(* The vring, the mutex, the condition variables and sched::thread are     *)
(* code of the repository that is not among the source files; they are     *)
(* modelled from sections 4.1, 4.3 and 5 of the specification.             *)
(***************************************************************************)
EXTENDS Integers, Sequences, FiniteSets, TLC

(* ------------------------------ bounds --------------------------------- *)

\* _pool_size, the soft capacity P of the entropy pool (64 in the driver),
\* scaled down.
PoolSize == 2

\* Bytes the host hands out in total (every byte is a distinct token).
MaxBytes == 3

\* Largest `size' a consumer passes to get_random_bytes.
MaxReq == 2

\* Consumer threads calling get_random_bytes.
Consumers == {"c1", "c2"}

\* Descriptors of a TX vring (the N of the host-chosen queue size).
RingSize == 2

\* Largest number of non-empty fragments of a transmitted packet.
MaxFrags == 1

\* Calls of if_transmit, all threads together.
MaxCalls == 3

\* Threads calling if_transmit.
TxThreads == {"t1", "t2"}

\* CPUs; the device offers one RX/TX queue pair per CPU
\* (_num_queues = 2 * sched::cpus.size()).
Cpus == {0, 1}

\* TX queue indices 0 .. _num_queues / 2 - 1.
TxQueues == Cpus

\* max_virtqueues_nr, the transport's cap on the queues of a device, scaled
\* down.
MaxVirtqueues == 3

\* Descriptors of the RX vring.
RxRingSize == 2

\* Packet buffers m_getjcl can hand out before memory is exhausted.
MaxRxBufs == 2

\* Largest num_buffers the host writes into a mergeable-buffers header.
MaxNumBuffers == 2

\* sizeof(net_hdr), sizeof(net_hdr_mrg_rxbuf), ETHER_HDR_LEN, MCLBYTES.
NetHdrSize == 10
NetHdrMrgSize == 12
EtherHdrLen == 14
MCLBYTES == 2048

\* Byte counts the host reports for a completed receive buffer: one below
\* header plus ethernet header, and a small frame.
RxLens == {20, 60}

\* The threads that run net code on the RX vring: the one constructing the
\* device and the poll task of the queue.
RxThreads == {"ctor", "poll"}

\* The virtio-rng thread (rng::_thread).
Producer == "virtio-rng"

NoThread == "none"

(* ----------------------------- variables ------------------------------- *)

VARIABLES
    \* --- entropy device (rng) ---
    entropy,        \* rng::_entropy, front first; a byte is a token 1, 2, ...
    mtx,            \* owner of rng::_mtx, or NoThread
    producerWait,   \* the producer thread is queued on condvar _producer
    consumerWait,   \* consumers queued on condvar _consumer
    ppc,            \* position of the producer thread in worker()/refill()
    remaining,      \* refill(): local `remaining' (size of buf)
    buf,            \* refill(): what the host wrote into `buf'
    len,            \* refill(): local `len' (set by get_buf_elem)
    have_elements,  \* wait_for_queue(): local `have_elements' of the predicate
    cpc,            \* position of each consumer in get_random_bytes()
    csize,          \* get_random_bytes(): argument `size'
    \* --- RNG vring and interrupt plumbing ---
    rngAvail,       \* size of the buffer published on the available ring, 0 if none
    rngUsed,        \* used.idx - last_used_idx: completions not yet taken
    rngUsedLen,     \* length_written of the pending used element
    intEnabled,     \* the queue's interrupts are enabled (NO_INTERRUPT clear)
    isr,            \* the device raised its interrupt line (ISR non-zero)
    thrStatus,      \* scheduler status of the producer thread
    \* --- history ---
    nProduced,      \* bytes written by the host so far
    delivered       \* every byte copied out to a consumer, in hand-out order

rngVars == <<entropy, mtx, producerWait, consumerWait, ppc, remaining, buf, len,
             have_elements, cpc, csize, rngAvail, rngUsed, rngUsedLen,
             intEnabled, isr, thrStatus, nProduced, delivered>>

VARIABLES
    \* --- network device, TX path ---
    tx_ring_lock,   \* owner of net::_tx_ring_lock, or NoThread
    tpc,            \* position of each thread in if_transmit()/tx_locked()/tx_gc()
    tcalls,         \* packets a thread has handed to if_transmit so far
    tfrags,         \* non-empty fragments of the thread's packet (m_head chain)
    tidx,           \* if_transmit(): local `idx' (result of pick_txq)
    trc,            \* tx_locked(): local `rc'
    txFree,         \* per TX vring: free descriptors
    txAvail,        \* per TX vring: chains published and not yet completed
    txUsed,         \* per TX vring: used ring, completed chains not yet reclaimed
    txStats,        \* per TX queue: txq_stats
    txKicks,        \* per TX queue: kicks (QUEUE_NOTIFY writes)
    reqLive,        \* net_req cookies allocated and not deleted
    reqDeleted,     \* net_req cookies deleted
    \* --- history ---
    tgc,            \* the thread's current call ran tx_gc
    tfree0,         \* free descriptors when the call entered tx_locked
    tfreed,         \* descriptors the call's tx_gc gave back
    tused0,         \* descriptors held by the used ring when the call checked for room
    tdrops0,        \* tx_drops of the picked queue when the call entered tx_locked
    tok,            \* per thread: the packets for which if_transmit returned 0
    reqDeletedTwice,\* cookies deleted more than once
    reclaimed,      \* cookies of the chains whose descriptors went back to the free list
    pubLog          \* every add_buf that published, in order: .on[q] the cookies
                    \* published on queue q, .by[t] the packets published by t

txVars == <<tx_ring_lock, tpc, tcalls, tfrags, tidx, trc, txFree,
            txAvail, txUsed, txStats, txKicks, reqLive, reqDeleted, tgc, tfree0,
            tused0, tfreed, tdrops0, tok, reqDeletedTwice, reclaimed, pubLog>>

VARIABLES
    \* --- transport core: device bring-up. One record, its fields:
    \*   dpc         position of the thread constructing (or destroying) the driver
    \*   dkind       "rng" or "net": the driver bound to the device
    \*   dfault      first check of parse_pci_config the device fails, or "none"
    \*   dmsix       _dev.is_msix()
    \*   ncpus       sched::cpus.size()
    \*   bar1        virtio_driver::_bar1 is not null
    \*   status      the device status byte, as the set of its bits
    \*   num_queues  virtio_driver::_num_queues
    \*   queues      virtio_driver::_queues: the indices at which a vring is held
    \*   pfn         queue indices whose ring PFN was written to the transport
    \*   vector      queue indices bound to the MSI-X vector of the same number
    \*   probeStop   why probe_virt_queues returned
    \*   registered  the worker was started and the source / interface registered
    \*   rng_queue   rng::_queue: the index of the vring it names, -1 for null
    \*   picked      result of the last net::pick_txq, -1 before the first
    dev,
    \* --- network device: construction, interrupts and the RX path of one
    \*     queue pair (RX vring 0 on vector 0, TX vring 1 on vector 1). One
    \*     record, its fields:
    \*   npc         position of the thread running net::net
    \*   cidx        the constructor's local 'idx'
    \*   msix        dev.is_msix()
    \*   mrg         net::_mergeable_bufs
    \*   status      the status byte of the net device
    \*   reg         the interrupt handlers of the pair are registered
    \*   rpc         position of the poll task in receiver()
    \*   task        poll task: "unstarted", "running" or "waiting"
    \*   have        wait_for_queue's local have_elements
    \*   fpc         per thread: position in fill_rx_ring
    \*   added       per thread: fill_rx_ring's local 'added'
    \*   fbuf        per thread: fill_rx_ring's local 'm' (0 for none)
    \*   free        RX vring: free descriptors
    \*   sg          RX vring: the staging vector (buffer ids)
    \*   avail       RX vring: published chains the host has not completed
    \*   used        RX vring: completed chains not yet finalized
    \*   intOn       RX vring: interrupts enabled
    \*   txIntOn     TX vring: interrupts enabled
    \*   isr         the ISR register (legacy interrupt)
    \*   rxIrq       MSI-X vector 0 is pending
    \*   txIrq       MSI-X vector 1 is pending
    \*   kick        the last fill_rx_ring that ended kicked the host
    \*   nalloc      packet buffers allocated so far (the ids are 1..nalloc)
    \*   cur         receiver: the chain get_buf_elem last returned (m, len)
    \*   nbufs       receiver: local 'nbufs'
    \*   frame       receiver: the chain m_head .. m_tail being assembled
    \*   pktlen      receiver: m_head's pkthdr.len
    \*   loc         receiver: the local counters of this drain
    \*   stats       rxq->stats
    \*   hostLog     history: buffers in the order the host completed them
    \*   upLog       history: frames handed to the upper layer, in order
    \*   dropLog     history: buffers freed by the receiver
    rx,
    \* --- entropy device: history of interruptions ---
    interrupted     \* the threads whose wait on a condition variable of the
                    \* entropy device was interrupted

vars == <<rngVars, txVars, dev, rx, interrupted>>

\* What the steps of one device leave alone.
othersRng == <<txVars, dev, rx, interrupted>>
othersTx == <<rngVars, dev, rx, interrupted>>
othersProbe == <<rngVars, txVars, rx, interrupted>>
othersRx == <<rngVars, txVars, dev, interrupted>>
othersIntr == <<txVars, dev, rx>>

(* ------------------------- helpers: sequences -------------------------- *)

Min(a, b) == IF a < b THEN a ELSE b

\* The tokens n+1 .. n+k as a sequence.
Tokens(n, k) == [i \in 1..k |-> n + i]

(* ------------------- vring (specification, 4.1) ------------------------ *)

\* vring::used_ring_not_empty(): last_used_idx != used.head
used_ring_not_empty(pending) == pending > 0

(* -------------------- entropy device: pure parts ----------------------- *)

\* Mutant of worker_pred: the comparison is <= instead of <.
worker_pred_le(pool) == Len(pool) <= PoolSize

\* rng::worker: the predicate of _producer.wait_until
worker_pred(pool) == Len(pool) < PoolSize

\* Mutant of refill_remaining: the buffer always has the size of the pool.
refill_remaining_full(pool) == PoolSize

\* rng::refill: auto remaining = _pool_size - _entropy.size();
refill_remaining(pool) == PoolSize - Len(pool)

\* rng::refill: copy_n(buf.begin(), len, back_inserter(_entropy));
refill_append(pool, b, n) == pool \o SubSeq(b, 1, n)

\* rng::get_random_bytes: the predicate of _consumer.wait_until
consumer_pred(pool) == Len(pool) > 0

\* Mutant of take_len: the whole pool is handed out, whatever was asked for.
take_len_all(pool, size) == Len(pool)

\* rng::get_random_bytes: auto len = std::min(_entropy.size(), size);
take_len(pool, size) == Min(Len(pool), size)

\* rng::get_random_bytes: copy_n(_entropy.begin(), len, buf);
copy_front(pool, n) == SubSeq(pool, 1, n)

\* Mutant of erase_front: the erased range is one element too long.
erase_front_off_by_one(pool, n) == SubSeq(pool, n + 2, Len(pool))

\* rng::get_random_bytes: _entropy.erase(begin, begin + len);
erase_front(pool, n) == SubSeq(pool, n + 1, Len(pool))

(* --------------------------- initial state ----------------------------- *)

InitRng ==
    /\ entropy = <<>>
    /\ mtx = NoThread
    /\ producerWait = FALSE
    /\ consumerWait = {}
    /\ ppc = "p_lock"
    /\ remaining = 0
    /\ buf = <<>>
    /\ len = 0
    /\ have_elements = FALSE
    /\ cpc = [c \in Consumers |-> "idle"]
    /\ csize = [c \in Consumers |-> 0]
    /\ rngAvail = 0
    /\ rngUsed = 0
    /\ rngUsedLen = 0
    /\ intEnabled = FALSE
    /\ isr = FALSE
    /\ thrStatus = "running"
    /\ nProduced = 0
    /\ delivered = <<>>

InitTx ==
    /\ tx_ring_lock = NoThread
    /\ tpc = [t \in TxThreads |-> "idle"]
    /\ tcalls = [t \in TxThreads |-> 0]
    /\ tfrags = [t \in TxThreads |-> 0]
    /\ tidx = [t \in TxThreads |-> 0]
    /\ trc = [t \in TxThreads |-> "0"]
    /\ txFree = [q \in TxQueues |-> RingSize]
    /\ txAvail = [q \in TxQueues |-> <<>>]
    /\ txUsed = [q \in TxQueues |-> <<>>]
    /\ txStats = [q \in TxQueues |->
                    [tx_packets |-> 0, tx_bytes |-> 0, tx_drops |-> 0, tx_err |-> 0]]
    /\ txKicks = [q \in TxQueues |-> 0]
    /\ reqLive = {}
    /\ reqDeleted = {}
    /\ tgc = [t \in TxThreads |-> FALSE]
    /\ tfree0 = [t \in TxThreads |-> 0]
    /\ tused0 = [t \in TxThreads |-> 0]
    /\ tfreed = [t \in TxThreads |-> 0]
    /\ tdrops0 = [t \in TxThreads |-> 0]
    /\ tok = [t \in TxThreads |-> <<>>]
    /\ reqDeletedTwice = {}
    /\ reclaimed = {}
    /\ pubLog = [on |-> [q \in TxQueues |-> <<>>], by |-> [t \in TxThreads |-> <<>>]]

\* No device has been handed to a driver yet: the members are as the
\* initializer list of virtio_driver::virtio_driver leaves them.
InitProbe ==
    dev = [dpc |-> "absent", dkind |-> "rng", dfault |-> "none",
           dmsix |-> FALSE, ncpus |-> 1, bar1 |-> FALSE, status |-> {},
           num_queues |-> 0, queues |-> {}, pfn |-> {}, vector |-> {},
           probeStop |-> "none", registered |-> FALSE, rng_queue |-> -1,
           picked |-> -1]

\* The counters of one RX queue, all zero.
ZeroRxStats == [rx_drops |-> 0, rx_packets |-> 0, rx_bytes |-> 0]

\* The null chain: what get_buf_elem returns when nothing is completed.
NoChain == [m |-> 0, len |-> 0, nb |-> 0]

\* The net device before net::net runs on it: the base constructor has
\* acknowledged it and its queue pair exists, the RX vring is empty with
\* interrupts enabled (the flags of a new ring are 0), no task runs.
InitRx ==
    rx = [npc |-> "absent", cidx |-> 0, msix |-> FALSE, mrg |-> FALSE,
          status |-> {"ACKNOWLEDGE", "DRIVER"}, reg |-> FALSE,
          rpc |-> "unstarted", task |-> "unstarted", have |-> FALSE,
          fpc |-> [t \in RxThreads |-> "idle"],
          added |-> [t \in RxThreads |-> 0],
          fbuf |-> [t \in RxThreads |-> 0],
          free |-> RxRingSize, sg |-> <<>>, avail |-> <<>>, used |-> <<>>,
          intOn |-> TRUE, txIntOn |-> TRUE, isr |-> FALSE,
          rxIrq |-> FALSE, txIrq |-> FALSE, kick |-> FALSE, nalloc |-> 0,
          cur |-> NoChain, nbufs |-> 0, frame |-> <<>>, pktlen |-> 0,
          loc |-> ZeroRxStats, stats |-> ZeroRxStats,
          hostLog |-> <<>>, upLog |-> <<>>, dropLog |-> <<>>]

Init == InitRng /\ InitTx /\ InitProbe /\ InitRx /\ interrupted = {}

(* ------------------- rng::worker (producer thread) --------------------- *)

consVars == <<cpc, csize, delivered>>
ringVars == <<rngAvail, rngUsed, rngUsedLen, intEnabled, isr, nProduced, buf>>

\* WITH_LOCK(_mtx)
WorkerLock ==
    /\ UNCHANGED othersRng
    /\ ppc = "p_lock"
    /\ mtx = NoThread
    /\ mtx' = Producer
    /\ ppc' = "p_check"
    /\ UNCHANGED <<entropy, producerWait, consumerWait, remaining, len,
                   have_elements, thrStatus, consVars, ringVars>>

\* _producer.wait_until(_mtx, [&] { return _entropy.size() < _pool_size; })
\* The predicate is evaluated under the mutex; when it is false the thread
\* queues on the condition variable and releases the mutex.
WorkerWaitUntil ==
    /\ UNCHANGED othersRng
    /\ ppc = "p_check"
    /\ IF worker_pred(entropy)
         THEN /\ ppc' = "r_begin"
              /\ UNCHANGED <<mtx, producerWait>>
         ELSE /\ ppc' = "p_sleep"
              /\ producerWait' = TRUE
              /\ mtx' = NoThread
    /\ UNCHANGED <<entropy, consumerWait, remaining, len, have_elements,
                   thrStatus, consVars, ringVars>>

\* The producer was signalled (wake_one) and takes the mutex again to
\* re-evaluate the predicate.
WorkerWoken ==
    /\ UNCHANGED othersRng
    /\ ppc = "p_sleep"
    /\ ~producerWait
    /\ mtx = NoThread
    /\ mtx' = Producer
    /\ ppc' = "p_check"
    /\ UNCHANGED <<entropy, producerWait, consumerWait, remaining, len,
                   have_elements, thrStatus, consVars, ringVars>>

(* ----------------------------- rng::refill ----------------------------- *)

\* Mutant of RefillBegin: the mutex is kept (no DROP_LOCK).
RefillBegin_KeepLock ==
    /\ UNCHANGED othersRng
    /\ ppc = "r_begin"
    /\ remaining' = refill_remaining(entropy)
    /\ ppc' = "r_stage"
    /\ UNCHANGED <<entropy, mtx, producerWait, consumerWait, len, have_elements,
                   thrStatus, consVars, ringVars>>

\* remaining = _pool_size - _entropy.size(); vector<char> buf(remaining);
\* DROP_LOCK(_mtx) {
RefillBegin ==
    /\ UNCHANGED othersRng
    /\ ppc = "r_begin"
    /\ remaining' = refill_remaining(entropy)
    /\ mtx' = NoThread
    /\ ppc' = "r_stage"
    /\ UNCHANGED <<entropy, producerWait, consumerWait, len, have_elements,
                   thrStatus, consVars, ringVars>>

\* init_sg(); add_in_sg(data, remaining); add_buf(data); kick();
\* The ring never holds more than this one chain and get_buf_finalize gives
\* the descriptor back, so add_buf finds room and the inner wait loop of
\* lines 83-88 is not entered.
RefillPublish ==
    /\ UNCHANGED othersRng
    /\ ppc = "r_stage"
    /\ rngAvail' = remaining
    /\ ppc' = "w_check1"
    /\ UNCHANGED <<entropy, mtx, producerWait, consumerWait, remaining, len,
                   have_elements, thrStatus, consVars, rngUsed, rngUsedLen,
                   intEnabled, isr, nProduced, buf>>

(* --------------------- virtio_driver::wait_for_queue ------------------- *)

\* sched::thread::wait_until: the thread is marked waiting, then the
\* predicate runs.  First evaluation of the predicate:
\*   bool have_elements = (queue->*pred)();
WaitCheck1 ==
    /\ UNCHANGED othersRng
    /\ ppc = "w_check1"
    /\ have_elements' = used_ring_not_empty(rngUsed)
    /\ IF have_elements'
         THEN /\ ppc' = "r_get"
              /\ thrStatus' = "running"
         ELSE /\ ppc' = "w_enable"
              /\ thrStatus' = "waiting"
    /\ UNCHANGED <<entropy, mtx, producerWait, consumerWait, remaining, len,
                   consVars, ringVars>>

\*   if (!have_elements) { queue->enable_interrupts();
WaitEnable ==
    /\ UNCHANGED othersRng
    /\ ppc = "w_enable"
    /\ intEnabled' = TRUE
    /\ ppc' = "w_check2"
    /\ UNCHANGED <<entropy, mtx, producerWait, consumerWait, remaining, len,
                   have_elements, thrStatus, consVars, rngAvail, rngUsed,
                   rngUsedLen, isr, nProduced, buf>>

\* Mutant of WaitCheck2: the result of the recheck is not tested, the
\* predicate disables the interrupts and returns true.
WaitCheck2_Untested ==
    /\ UNCHANGED othersRng
    /\ ppc = "w_check2"
    /\ ppc' = "w_disable"
    /\ UNCHANGED <<entropy, mtx, producerWait, consumerWait, remaining, len,
                   have_elements, thrStatus, consVars, ringVars>>

\* Mutant of WaitCheck2: no recheck after enable_interrupts, the predicate
\* returns the result of the first evaluation.
WaitCheck2_NoRecheck ==
    /\ UNCHANGED othersRng
    /\ ppc = "w_check2"
    /\ ppc' = "w_wait"
    /\ UNCHANGED <<entropy, mtx, producerWait, consumerWait, remaining, len,
                   have_elements, thrStatus, consVars, ringVars>>

\*   have_elements = (queue->*pred)();   (the recheck)
WaitCheck2 ==
    /\ UNCHANGED othersRng
    /\ ppc = "w_check2"
    /\ have_elements' = used_ring_not_empty(rngUsed)
    /\ ppc' = IF have_elements' THEN "w_disable" ELSE "w_wait"
    /\ UNCHANGED <<entropy, mtx, producerWait, consumerWait, remaining, len,
                   thrStatus, consVars, ringVars>>

\*   if (have_elements) queue->disable_interrupts();  return have_elements;
WaitDisable ==
    /\ UNCHANGED othersRng
    /\ ppc = "w_disable"
    /\ intEnabled' = FALSE
    /\ thrStatus' = "running"
    /\ ppc' = "r_get"
    /\ UNCHANGED <<entropy, mtx, producerWait, consumerWait, remaining, len,
                   have_elements, consVars, rngAvail, rngUsed, rngUsedLen,
                   isr, nProduced, buf>>

\* The predicate returned false: the thread sleeps until it is woken
\* (its status is no longer waiting), and wait_until evaluates the
\* predicate again.
WaitSleep ==
    /\ UNCHANGED othersRng
    /\ ppc = "w_wait"
    /\ thrStatus = "running"
    /\ ppc' = "w_check1"
    /\ UNCHANGED <<entropy, mtx, producerWait, consumerWait, remaining, len,
                   have_elements, thrStatus, consVars, ringVars>>

(* ------------------------ rng::refill, continued ----------------------- *)

\* _queue->get_buf_elem(&len); _queue->get_buf_finalize();
\* (the locals of wait_for_queue are gone; the used element is consumed)
RefillGetBuf ==
    /\ UNCHANGED othersRng
    /\ ppc = "r_get"
    /\ len' = rngUsedLen
    /\ rngUsed' = IF rngUsed > 0 THEN rngUsed - 1 ELSE 0
    /\ rngUsedLen' = 0
    /\ have_elements' = FALSE
    /\ ppc' = "r_relock"
    /\ UNCHANGED <<entropy, mtx, producerWait, consumerWait, remaining,
                   thrStatus, consVars, rngAvail, intEnabled, isr, nProduced,
                   buf>>

\* } end of DROP_LOCK: the mutex is taken again
RefillRelock ==
    /\ UNCHANGED othersRng
    /\ ppc = "r_relock"
    /\ mtx = NoThread
    /\ mtx' = Producer
    /\ ppc' = "r_append"
    /\ UNCHANGED <<entropy, producerWait, consumerWait, remaining, len,
                   have_elements, thrStatus, consVars, ringVars>>

\* Mutant of RefillAppend: the consumers are not signalled.
RefillAppend_NoWakeAll ==
    /\ UNCHANGED othersRng
    /\ ppc = "r_append"
    /\ entropy' = refill_append(entropy, buf, len)
    /\ mtx' = NoThread
    /\ remaining' = 0
    /\ buf' = <<>>
    /\ len' = 0
    /\ ppc' = "p_lock"
    /\ UNCHANGED <<producerWait, consumerWait, have_elements, thrStatus,
                   consVars, rngAvail, rngUsed, rngUsedLen, intEnabled, isr,
                   nProduced>>

\* copy_n(buf.begin(), len, back_inserter(_entropy));
\* back in worker(): _consumer.wake_all(); and the end of WITH_LOCK.
\* The locals of refill() (remaining, buf, len) end with the call.
RefillAppend ==
    /\ UNCHANGED othersRng
    /\ ppc = "r_append"
    /\ entropy' = refill_append(entropy, buf, len)
    /\ consumerWait' = {}
    /\ mtx' = NoThread
    /\ remaining' = 0
    /\ buf' = <<>>
    /\ len' = 0
    /\ ppc' = "p_lock"
    /\ UNCHANGED <<producerWait, have_elements, thrStatus, consVars, rngAvail,
                   rngUsed, rngUsedLen, intEnabled, isr, nProduced>>

ProducerStep ==
    \/ WorkerLock
    \/ WorkerWaitUntil
    \/ WorkerWoken
    \/ RefillBegin
    \/ RefillPublish
    \/ WaitCheck1
    \/ WaitEnable
    \/ WaitCheck2
    \/ WaitDisable
    \/ WaitSleep
    \/ RefillGetBuf
    \/ RefillRelock
    \/ RefillAppend

(* ------------------------ rng::get_random_bytes ------------------------ *)

prodVars == <<ppc, remaining, len, have_elements, thrStatus>>

\* A client calls get_random_bytes(buf, size) and takes the mutex (WITH_LOCK).
GetRandomBytesCall(c, size) ==
    /\ UNCHANGED othersRng
    /\ cpc[c] = "idle"
    /\ mtx = NoThread
    /\ mtx' = c
    /\ cpc' = [cpc EXCEPT ![c] = "c_check"]
    /\ csize' = [csize EXCEPT ![c] = size]
    /\ UNCHANGED <<entropy, producerWait, consumerWait, delivered, prodVars,
                   ringVars>>

\* _consumer.wait_until(_mtx, [&] { return _entropy.size() > 0; })
GetRandomBytesWaitUntil(c) ==
    /\ UNCHANGED othersRng
    /\ cpc[c] = "c_check"
    /\ IF consumer_pred(entropy)
         THEN /\ cpc' = [cpc EXCEPT ![c] = "c_take"]
              /\ UNCHANGED <<mtx, consumerWait>>
         ELSE /\ cpc' = [cpc EXCEPT ![c] = "c_sleep"]
              /\ consumerWait' = consumerWait \cup {c}
              /\ mtx' = NoThread
    /\ UNCHANGED <<entropy, producerWait, csize, delivered, prodVars,
                   ringVars>>

\* The consumer was signalled (wake_all) and takes the mutex again.
GetRandomBytesWoken(c) ==
    /\ UNCHANGED othersRng
    /\ cpc[c] = "c_sleep"
    /\ c \notin consumerWait
    /\ mtx = NoThread
    /\ mtx' = c
    /\ cpc' = [cpc EXCEPT ![c] = "c_check"]
    /\ UNCHANGED <<entropy, producerWait, consumerWait, csize, delivered,
                   prodVars, ringVars>>

\* len = min(size(), size); copy_n; erase; _producer.wake_one(); return len;
GetRandomBytesTake(c) ==
    /\ UNCHANGED othersRng
    /\ cpc[c] = "c_take"
    /\ LET n == take_len(entropy, csize[c])
       IN  /\ delivered' = delivered \o copy_front(entropy, n)
           /\ entropy' = erase_front(entropy, n)
    /\ csize' = [csize EXCEPT ![c] = 0]
    /\ producerWait' = FALSE
    /\ mtx' = NoThread
    /\ cpc' = [cpc EXCEPT ![c] = "idle"]
    /\ UNCHANGED <<consumerWait, prodVars, ringVars>>

ConsumerStep ==
    \/ \E c \in Consumers, size \in 0..MaxReq : GetRandomBytesCall(c, size)
    \/ \E c \in Consumers : GetRandomBytesWaitUntil(c)
    \/ \E c \in Consumers : GetRandomBytesWoken(c)
    \/ \E c \in Consumers : GetRandomBytesTake(c)

(* ---------------------- host and interrupt side ------------------------ *)

\* The host completes the published buffer, writing n bytes (n at most the
\* size of the buffer) and raises its interrupt if the queue's interrupts
\* are enabled.
RngHostComplete(n) ==
    /\ UNCHANGED othersRng
    /\ rngAvail > 0
    /\ n <= rngAvail
    /\ nProduced + n <= MaxBytes
    /\ buf' = Tokens(nProduced, n)
    /\ nProduced' = nProduced + n
    /\ rngUsedLen' = n
    /\ rngUsed' = rngUsed + 1
    /\ rngAvail' = 0
    /\ isr' = (isr \/ intEnabled)
    /\ UNCHANGED <<entropy, mtx, producerWait, consumerWait, intEnabled,
                   prodVars, consVars>>

\* thread::wake(): a waiting thread becomes runnable; otherwise nothing.
thread_wake(st) == IF st = "waiting" THEN "running" ELSE st

\* The interrupt is delivered: rng::ack_irq reads (and clears) the ISR, then
\* rng::handle_irq wakes the thread.
RngIrq ==
    /\ UNCHANGED othersRng
    /\ isr
    /\ isr' = FALSE
    /\ thrStatus' = thread_wake(thrStatus)
    /\ UNCHANGED <<entropy, mtx, producerWait, consumerWait, ppc, remaining,
                   len, have_elements, consVars, rngAvail, rngUsed,
                   rngUsedLen, intEnabled, nProduced, buf>>

\* A wakeup that no completion caused.
RngSpuriousWake ==
    /\ UNCHANGED othersRng
    /\ thrStatus = "waiting"
    /\ thrStatus' = "running"
    /\ UNCHANGED <<entropy, mtx, producerWait, consumerWait, ppc, remaining,
                   len, have_elements, consVars, ringVars>>

HostStep ==
    \/ \E n \in 0..PoolSize : RngHostComplete(n)
    \/ RngIrq
    \/ RngSpuriousWake

NextRng == ProducerStep \/ ConsumerStep \/ HostStep

SpecRng == Init /\ [][NextRng]_vars

\* Fair scheduling of the producer thread and delivery of a raised interrupt.
FairSpecRng == SpecRng /\ WF_vars(ProducerStep) /\ WF_vars(RngIrq)


(* ======================= network device: TX path ======================= *)

\* vring::avail_ring_has_room(n): at least n free descriptors remain
avail_ring_has_room(free, n) == free >= n

\* net::pick_txq: unsigned idx = sched::cpu::current()->id; return idx;
pick_txq(cpu) == cpu

\* net::tx_locked: the scatter-gather list is the net header followed by
\* every non-empty fragment of the packet (vq->_sg_vec.size()).
sg_vec_size(frags) == 1 + frags

\* The net_req cookie of the thread's current call.
Req(t) == <<t, tcalls[t]>>

\* Descriptors held by a sequence of chains.
RECURSIVE SumDesc(_)
SumDesc(chains) ==
    IF chains = <<>> THEN 0 ELSE Head(chains).n + SumDesc(Tail(chains))

\* The cookies of a sequence of chains.
Cookies(chains) == {chains[i].req : i \in 1..Len(chains)}

\* Mutant of room_decision: a full ring fails at once, completions are not
\* drained.
room_decision_no_gc(free, n, used) ==
    IF avail_ring_has_room(free, n) THEN "add" ELSE "enobufs"

\* net::tx_locked, the room check before add_buf:
\*   if (!vq->avail_ring_has_room(vq->_sg_vec.size())) {
\*       if (vq->used_ring_not_empty()) tx_gc(idx);
\*       else { delete req; rc = ENOBUFS; goto out; } }
room_decision(free, n, used) ==
    IF avail_ring_has_room(free, n) THEN "add"
    ELSE IF used_ring_not_empty(used) THEN "gc"
    ELSE "enobufs"

\* Mutant of update_stats: every failure is counted as a drop.
update_stats_all_drops(st, rc, bytes) ==
    IF rc = "0" THEN [st EXCEPT !.tx_packets = @ + 1, !.tx_bytes = @ + bytes]
    ELSE [st EXCEPT !.tx_drops = @ + 1]

\* net::tx_locked, `out:' - the statistics update by return code.
update_stats(st, rc, bytes) ==
    IF rc = "0" THEN [st EXCEPT !.tx_packets = @ + 1, !.tx_bytes = @ + bytes]
    ELSE IF rc = "ENOBUFS" THEN [st EXCEPT !.tx_drops = @ + 1]
    ELSE [st EXCEPT !.tx_err = @ + 1]

\* The calls of if_transmit made so far by the threads of S.
RECURSIVE SumCalls(_, _)
SumCalls(calls, S) ==
    IF S = {} THEN 0
    ELSE LET t == CHOOSE x \in S : TRUE
         IN  calls[t] + SumCalls(calls, S \ {t})

txCallVars == <<tcalls, tfrags>>
txRingVars == <<txFree, txAvail, txUsed>>
txReqVars == <<reqLive, reqDeleted, reqDeletedTwice>>
txGhostVars == <<tgc, tfree0, tused0, tfreed, tdrops0>>

\* An upper layer calls if_transmit(ifp, m_head); the packet is first read
\* in tx_locked.
IfTransmitCall(t) ==
    /\ UNCHANGED othersTx
    /\ tpc[t] = "idle"
    /\ SumCalls(tcalls, TxThreads) < MaxCalls
    /\ tcalls' = [tcalls EXCEPT ![t] = @ + 1]
    /\ tpc' = [tpc EXCEPT ![t] = "t_lock"]
    /\ UNCHANGED <<tx_ring_lock, tfrags, tidx, trc, txRingVars, txStats, txKicks,
                   txReqVars, txGhostVars, tok, reclaimed, pubLog>>

\* vnet->_tx_ring_lock.lock();
IfTransmitLock(t) ==
    /\ UNCHANGED othersTx
    /\ tpc[t] = "t_lock"
    /\ tx_ring_lock = NoThread
    /\ tx_ring_lock' = t
    /\ tpc' = [tpc EXCEPT ![t] = "t_locked"]
    /\ UNCHANGED <<txCallVars, tidx, trc, txRingVars, txStats, txKicks,
                   txReqVars, txGhostVars, tok, reclaimed, pubLog>>

\* idx = pick_txq(m_head); then tx_locked(idx, m_head) up to the room check:
\* new net_req; tx_offload when csum_flags != 0 (EINVAL when it fails);
\* init_sg, add_out_sg of the header and of every non-empty fragment;
\* avail_ring_has_room / used_ring_not_empty.  The packet m_head has `frags'
\* non-empty fragments; `off' is "none" for csum_flags = 0 and otherwise the
\* outcome of tx_offload.
TxLockedBegin(t, cpu, frags, off) ==
    /\ UNCHANGED othersTx
    /\ tpc[t] = "t_locked"
    /\ LET idx == pick_txq(cpu)
           n == sg_vec_size(frags)
           what == IF off = "fail" THEN "einval"
                   ELSE room_decision(txFree[idx], n, Len(txUsed[idx]))
           rc == CASE what = "einval" -> "EINVAL"
                   [] what = "enobufs" -> "ENOBUFS"
                   [] OTHER -> "0"
       IN  /\ tidx' = [tidx EXCEPT ![t] = idx]
           /\ tfrags' = [tfrags EXCEPT ![t] = frags]
           /\ tfree0' = [tfree0 EXCEPT ![t] = txFree[idx]]
           /\ tused0' = [tused0 EXCEPT ![t] = SumDesc(txUsed[idx])]
           /\ tdrops0' = [tdrops0 EXCEPT ![t] = txStats[idx].tx_drops]
           /\ tfreed' = [tfreed EXCEPT ![t] = 0]
           /\ tgc' = [tgc EXCEPT ![t] = (what = "gc")]
           /\ trc' = [trc EXCEPT ![t] = rc]
           /\ IF what \in {"einval", "enobufs"}
                THEN \* delete req; rc = ...; goto out; statistics
                     /\ reqDeleted' = reqDeleted \cup {Req(t)}
                     /\ reqDeletedTwice' = reqDeletedTwice \cup ({Req(t)} \cap reqDeleted)
                     /\ reqLive' = reqLive \ {Req(t)}
                     /\ txStats' = [txStats EXCEPT ![idx] = update_stats(@, rc, 0)]
                     /\ tpc' = [tpc EXCEPT ![t] = "t_out"]
                ELSE /\ reqLive' = reqLive \cup {Req(t)}
                     /\ tpc' = [tpc EXCEPT ![t] = IF what = "gc" THEN "gc_loop" ELSE "t_add"]
                     /\ UNCHANGED <<reqDeleted, reqDeletedTwice, txStats>>
    /\ UNCHANGED <<tx_ring_lock, tcalls, txRingVars, txKicks, tok,
                   reclaimed, pubLog>>

\* net::tx_gc, the loop: req = get_buf_elem(&len);
\*   while (req != nullptr) { delete req; get_buf_finalize(); req = get_buf_elem(&len); }
\* get_buf_elem peeks the next completed chain, get_buf_finalize gives its
\* descriptors back and advances last_used_idx.
TxGcLoop(t) ==
    /\ UNCHANGED othersTx
    /\ tpc[t] = "gc_loop"
    /\ LET q == tidx[t]
       IN  IF txUsed[q] # <<>>
             THEN LET c == Head(txUsed[q])
                  IN  /\ reqDeleted' = reqDeleted \cup {c.req}
                      /\ reqDeletedTwice' = reqDeletedTwice \cup ({c.req} \cap reqDeleted)
                      /\ reqLive' = reqLive \ {c.req}
                      /\ txUsed' = [txUsed EXCEPT ![q] = Tail(@)]
                      /\ txFree' = [txFree EXCEPT ![q] = @ + c.n]
                      /\ reclaimed' = reclaimed \cup {c.req}
                      /\ tfreed' = [tfreed EXCEPT ![t] = @ + c.n]
                      /\ UNCHANGED tpc
             ELSE /\ tpc' = [tpc EXCEPT ![t] = "gc_final"]
                  /\ UNCHANGED <<reqDeleted, reqDeletedTwice, reqLive, txUsed,
                                 txFree, reclaimed, tfreed>>
    /\ UNCHANGED <<tx_ring_lock, txCallVars, tidx, trc, txAvail, txStats,
                   txKicks, tgc, tfree0, tused0, tdrops0, tok, pubLog>>

\* net::tx_gc, last statement: vq->get_buf_gc(), which drains every chain the
\* used ring holds at that moment.
TxGcFinal(t) ==
    /\ UNCHANGED othersTx
    /\ tpc[t] = "gc_final"
    /\ LET q == tidx[t]
       IN  /\ txFree' = [txFree EXCEPT ![q] = @ + SumDesc(txUsed[q])]
           /\ reclaimed' = reclaimed \cup Cookies(txUsed[q])
           /\ tfreed' = [tfreed EXCEPT ![t] = @ + SumDesc(txUsed[q])]
           /\ txUsed' = [txUsed EXCEPT ![q] = <<>>]
    /\ tpc' = [tpc EXCEPT ![t] = "t_add"]
    /\ UNCHANGED <<tx_ring_lock, txCallVars, tidx, trc, txAvail, txStats,
                   txKicks, txReqVars, tgc, tfree0, tused0, tdrops0, tok, pubLog>>

\* Mutant of TxAddBuf: the result of add_buf is not tested.
TxAddBuf_Unchecked(t) ==
    /\ UNCHANGED othersTx
    /\ tpc[t] = "t_add"
    /\ LET q == tidx[t]
           n == sg_vec_size(tfrags[t])
       IN  /\ IF avail_ring_has_room(txFree[q], n)
                THEN /\ txFree' = [txFree EXCEPT ![q] = @ - n]
                     /\ txAvail' = [txAvail EXCEPT ![q] = Append(@, [req |-> Req(t), n |-> n])]
                     /\ pubLog' = [pubLog EXCEPT !.on[q] = Append(@, Req(t)),
                                                !.by[t] = Append(@, tcalls[t])]
                ELSE UNCHANGED <<txFree, txAvail, pubLog>>
           /\ txStats' = [txStats EXCEPT ![q] = update_stats(@, "0", tfrags[t])]
    /\ trc' = [trc EXCEPT ![t] = "0"]
    /\ tpc' = [tpc EXCEPT ![t] = "t_out"]
    /\ UNCHANGED <<tx_ring_lock, txCallVars, tidx, txUsed, txKicks, txReqVars,
                   txGhostVars, tok, reclaimed>>

\* net::tx_locked: if (!vq->add_buf(req)) { delete req; rc = ENOBUFS; goto out; }
\* and the statistics at `out:'.  add_buf takes sg_vec_size descriptors from
\* the free list, records the cookie and publishes the chain at the tail of
\* the available ring; it fails when the free descriptors do not suffice.
TxAddBuf(t) ==
    /\ UNCHANGED othersTx
    /\ tpc[t] = "t_add"
    /\ LET q == tidx[t]
           n == sg_vec_size(tfrags[t])
       IN  IF avail_ring_has_room(txFree[q], n)
             THEN /\ txFree' = [txFree EXCEPT ![q] = @ - n]
                  /\ txAvail' = [txAvail EXCEPT ![q] = Append(@, [req |-> Req(t), n |-> n])]
                  /\ pubLog' = [pubLog EXCEPT !.on[q] = Append(@, Req(t)),
                                                !.by[t] = Append(@, tcalls[t])]
                  /\ trc' = [trc EXCEPT ![t] = "0"]
                  /\ txStats' = [txStats EXCEPT ![q] = update_stats(@, "0", tfrags[t])]
                  /\ UNCHANGED txReqVars
             ELSE /\ reqDeleted' = reqDeleted \cup {Req(t)}
                  /\ reqDeletedTwice' = reqDeletedTwice \cup ({Req(t)} \cap reqDeleted)
                  /\ reqLive' = reqLive \ {Req(t)}
                  /\ trc' = [trc EXCEPT ![t] = "ENOBUFS"]
                  /\ txStats' = [txStats EXCEPT ![q] = update_stats(@, "ENOBUFS", 0)]
                  /\ UNCHANGED <<txFree, txAvail, pubLog>>
    /\ tpc' = [tpc EXCEPT ![t] = "t_out"]
    /\ UNCHANGED <<tx_ring_lock, txCallVars, tidx, txUsed, txKicks, txGhostVars,
                   tok, reclaimed>>

\* Mutant of IfTransmitFinish: the queue is kicked whatever tx_locked returned.
IfTransmitFinish_KickAlways(t) ==
    /\ UNCHANGED othersTx
    /\ tpc[t] = "t_out"
    /\ txKicks' = [txKicks EXCEPT ![tidx[t]] = @ + 1]
    /\ tok' = IF trc[t] = "0" THEN [tok EXCEPT ![t] = Append(@, tcalls[t])] ELSE tok
    /\ tx_ring_lock' = NoThread
    /\ tpc' = [tpc EXCEPT ![t] = "idle"]
    /\ tfrags' = [tfrags EXCEPT ![t] = 0]
    /\ tidx' = [tidx EXCEPT ![t] = 0]
    /\ trc' = [trc EXCEPT ![t] = "0"]
    /\ tgc' = [tgc EXCEPT ![t] = FALSE]
    /\ tfree0' = [tfree0 EXCEPT ![t] = 0]
    /\ tused0' = [tused0 EXCEPT ![t] = 0]
    /\ tfreed' = [tfreed EXCEPT ![t] = 0]
    /\ tdrops0' = [tdrops0 EXCEPT ![t] = 0]
    /\ UNCHANGED <<tcalls, txRingVars, txStats, txReqVars, reclaimed, pubLog>>

\* Mutant of IfTransmitFinish: the error path returns without unlocking.
IfTransmitFinish_NoUnlockOnError(t) ==
    /\ UNCHANGED othersTx
    /\ tpc[t] = "t_out"
    /\ txKicks' = IF trc[t] = "0" THEN [txKicks EXCEPT ![tidx[t]] = @ + 1] ELSE txKicks
    /\ tok' = IF trc[t] = "0" THEN [tok EXCEPT ![t] = Append(@, tcalls[t])] ELSE tok
    /\ tx_ring_lock' = IF trc[t] = "0" THEN NoThread ELSE tx_ring_lock
    /\ tpc' = [tpc EXCEPT ![t] = "idle"]
    /\ tfrags' = [tfrags EXCEPT ![t] = 0]
    /\ tidx' = [tidx EXCEPT ![t] = 0]
    /\ trc' = [trc EXCEPT ![t] = "0"]
    /\ tgc' = [tgc EXCEPT ![t] = FALSE]
    /\ tfree0' = [tfree0 EXCEPT ![t] = 0]
    /\ tused0' = [tused0 EXCEPT ![t] = 0]
    /\ tfreed' = [tfreed EXCEPT ![t] = 0]
    /\ tdrops0' = [tdrops0 EXCEPT ![t] = 0]
    /\ UNCHANGED <<tcalls, txRingVars, txStats, txReqVars, reclaimed, pubLog>>

\* if_transmit after tx_locked returned:
\*   if (!error) vnet->kick(2 * idx + 1); else printf(...);
\*   vnet->_tx_ring_lock.unlock(); return error;
\* The locals of the call end with it.
IfTransmitFinish(t) ==
    /\ UNCHANGED othersTx
    /\ tpc[t] = "t_out"
    /\ txKicks' = IF trc[t] = "0" THEN [txKicks EXCEPT ![tidx[t]] = @ + 1] ELSE txKicks
    /\ tok' = IF trc[t] = "0" THEN [tok EXCEPT ![t] = Append(@, tcalls[t])] ELSE tok
    /\ tx_ring_lock' = NoThread
    /\ tpc' = [tpc EXCEPT ![t] = "idle"]
    /\ tfrags' = [tfrags EXCEPT ![t] = 0]
    /\ tidx' = [tidx EXCEPT ![t] = 0]
    /\ trc' = [trc EXCEPT ![t] = "0"]
    /\ tgc' = [tgc EXCEPT ![t] = FALSE]
    /\ tfree0' = [tfree0 EXCEPT ![t] = 0]
    /\ tused0' = [tused0 EXCEPT ![t] = 0]
    /\ tfreed' = [tfreed EXCEPT ![t] = 0]
    /\ tdrops0' = [tdrops0 EXCEPT ![t] = 0]
    /\ UNCHANGED <<tcalls, txRingVars, txStats, txReqVars, reclaimed, pubLog>>

\* One step of a transmitting thread that holds or takes the TX lock.
TxStep(t) ==
    \/ IfTransmitLock(t)
    \/ \E cpu \in Cpus, frags \in 0..MaxFrags, off \in {"none", "ok", "fail"} :
          TxLockedBegin(t, cpu, frags, off)
    \/ TxGcLoop(t)
    \/ TxGcFinal(t)
    \/ TxAddBuf(t)
    \/ IfTransmitFinish(t)

\* The host completes the oldest published chain of a TX queue: it moves to
\* the used ring.
TxHostComplete(q) ==
    /\ UNCHANGED othersTx
    /\ txAvail[q] # <<>>
    /\ txUsed' = [txUsed EXCEPT ![q] = Append(@, Head(txAvail[q]))]
    /\ txAvail' = [txAvail EXCEPT ![q] = Tail(@)]
    /\ UNCHANGED <<tx_ring_lock, tpc, txCallVars, tidx, trc, txFree, txStats,
                   txKicks, txReqVars, txGhostVars, tok, reclaimed, pubLog>>

NextTx ==
    \/ \E t \in TxThreads : IfTransmitCall(t)
    \/ \E t \in TxThreads : TxStep(t)
    \/ \E q \in TxQueues : TxHostComplete(q)

SpecTx == Init /\ [][NextTx]_vars

(* ======================= claims: entropy device ======================== *)

\* The producer is inside wait_for_queue.
InWaitForQueue == ppc \in {"w_check1", "w_enable", "w_check2", "w_disable", "w_wait"}

\* C1: wait_for_queue returns only after an evaluation of the predicate that
\* yielded true, and the predicate (used_ring_not_empty) still holds right
\* after the return, whatever the host, the interrupt and spurious wakeups did.
C1_ReturnImpliesPred ==
    ppc = "r_get" => (have_elements /\ used_ring_not_empty(rngUsed))

\* C1 witness: the call returned after the thread had enabled interrupts and
\* slept at least once (interrupts are still enabled, so the return came from
\* a first evaluation that followed a wakeup).
C1_Witness == ppc = "r_get" /\ intEnabled /\ have_elements

\* C2: no lost wakeup.  If a completion is on the used ring while the thread
\* is inside wait_for_queue, the thread eventually returns from it (fair
\* scheduling, and the host raises the interrupt for completions made while
\* the interrupts are enabled).
C2_NoLostWakeup ==
    (InWaitForQueue /\ used_ring_not_empty(rngUsed)) ~> (ppc = "r_get")

\* C2 witness: the completion arrived after the negative recheck; the thread
\* is suspended and the interrupt is pending.
C2_Witness == ppc = "w_wait" /\ thrStatus = "waiting" /\ rngUsed > 0 /\ isr

\* C3: the pool never holds more than PoolSize bytes, the producer does not
\* start a refill while the pool is full, and a published buffer never
\* exceeds the room left in the pool.
C3_PoolBound ==
    /\ Len(entropy) <= PoolSize
    /\ ppc \in {"r_begin", "r_stage"} => Len(entropy) < PoolSize
    /\ ppc = "r_stage" => remaining >= 1
    /\ rngAvail > 0 => Len(entropy) + rngAvail <= PoolSize
    /\ ppc = "r_append" => Len(entropy) + len <= PoolSize

\* C3 witness: the pool is full and the producer waits on its condition
\* variable while a consumer is about to drain.
C3_Witness ==
    /\ Len(entropy) = PoolSize
    /\ ppc = "p_sleep"
    /\ \E c \in Consumers : cpc[c] = "c_take"

\* Everything handed out followed by the pool is the sequence of bytes the
\* producer appended, in its order: no byte twice, none skipped.
C4_Fifo ==
    delivered \o entropy = [i \in 1..(Len(delivered) + Len(entropy)) |-> i]

\* One consumer's copy-out step.
C4_TakeStep(c) ==
    (cpc[c] = "c_take" /\ cpc'[c] = "idle") =>
        LET n == Min(Len(entropy), csize[c])
        IN  /\ Len(entropy) > 0
            /\ delivered' = delivered \o [i \in 1..n |-> entropy[i]]
            /\ entropy' = SubSeq(entropy, n + 1, Len(entropy))
            /\ ~producerWait'

\* C4: get_random_bytes proceeds only with a non-empty pool, returns exactly
\* min(|pool|, size) bytes, the front of the pool in the producer's order,
\* removes exactly those, wakes the producer, and no byte is handed out twice.
C4_GetRandomBytes == [][(\A c \in Consumers : C4_TakeStep(c)) /\ C4_Fifo']_vars

\* C4 witness: a call has taken a proper prefix of the pool (bytes were
\* handed out and bytes remain), and a consumer is about to copy out with a
\* request larger than what the pool holds.
C4_Witness ==
    /\ Len(delivered) > 0
    /\ Len(entropy) > 0
    /\ \E c \in Consumers : cpc[c] = "c_take" /\ csize[c] > Len(entropy)

\* Positions of the producer between DROP_LOCK and the end of its block.
HostInteraction ==
    {"r_stage", "w_check1", "w_enable", "w_check2", "w_disable", "w_wait",
     "r_get", "r_relock"}

\* C5: the mutex is not held by the producer during its host interaction, so
\* a consumer that finds no other consumer in the critical section can enter
\* it; the producer holds the mutex again when it appends.
C5_MutexDropped ==
    /\ ppc \in HostInteraction => mtx # Producer
    /\ ppc = "r_append" => mtx = Producer
    /\ \A c \in Consumers :
         (ppc \in HostInteraction /\ cpc[c] = "idle" /\ mtx \notin Consumers)
            => ENABLED GetRandomBytesCall(c, 1)

\* C5 witness: the producer is suspended waiting for the host, which has not
\* completed the buffer, while a consumer holds the mutex and is about to
\* copy out of the non-empty pool.
C5_Witness ==
    /\ ppc = "w_wait" /\ thrStatus = "waiting" /\ rngAvail > 0
    /\ \E c \in Consumers : cpc[c] = "c_take" /\ mtx = c /\ Len(entropy) > 0

(* ======================== claims: TX path ============================== *)

\* The positions of a thread between lock() and unlock() of _tx_ring_lock.
InTx == {"t_locked", "gc_loop", "gc_final", "t_add", "t_out"}

\* The positions after the room check of tx_locked.
PastRoomCheck == {"gc_loop", "gc_final", "t_add", "t_out"}

\* Publications on TX queue q so far.
PublishedOn(q) == Len(pubLog.on[q])

\* The cookie was published on some available ring.
Published(req) == \E q \in TxQueues : \E i \in 1..Len(pubLog.on[q]) : pubLog.on[q][i] = req

\* The host has completed no chain of queue q so far.
HostStalled(q) == txUsed[q] = <<>> /\ Len(txAvail[q]) = PublishedOn(q)

\* The packet numbers thread t has published, in publication order.
PublishedBy(t) == pubLog.by[t]

\* The cookies published on queue q, in publication order.
RingLog(q) == pubLog.on[q]

\* C6: when the available ring lacks room for the chain (header plus
\* non-empty fragments), tx_locked runs tx_gc and retries add_buf exactly if
\* the used ring is non-empty, otherwise it fails with ENOBUFS; on ENOBUFS
\* nothing was published, the cookie is deleted, and the queue is kicked only
\* for a publication.
C6_QueueFull ==
    /\ \A t \in TxThreads :
         (tpc[t] \in PastRoomCheck /\ trc[t] # "EINVAL") =>
            LET lacks == 1 + tfrags[t] > tfree0[t]
            IN  /\ tgc[t] <=> (lacks /\ tused0[t] > 0)
                /\ tpc[t] \in {"gc_loop", "gc_final"} => tgc[t]
                /\ (lacks /\ tused0[t] = 0) => (tpc[t] = "t_out" /\ trc[t] = "ENOBUFS")
                /\ (tgc[t] /\ tpc[t] = "t_out") =>
                      (trc[t] = "0" <=> 1 + tfrags[t] <= tfree0[t] + tfreed[t])
    /\ \A t \in TxThreads :
         (tpc[t] = "t_out" /\ trc[t] = "ENOBUFS") =>
            /\ Req(t) \notin reqLive
            /\ Req(t) \in reqDeleted
            /\ ~Published(Req(t))
            /\ \A q \in TxQueues : Req(t) \notin Cookies(txAvail[q] \o txUsed[q])
    /\ \A q \in TxQueues :
         txKicks[q] = PublishedOn(q)
                      - Cardinality({t \in TxThreads :
                            tpc[t] = "t_out" /\ trc[t] = "0" /\ tidx[t] = q})

\* C6 witness: a call found no room, drained the used ring, retried add_buf,
\* and still returns ENOBUFS.
C6_Witness ==
    \E t \in TxThreads : tpc[t] = "t_out" /\ trc[t] = "ENOBUFS" /\ tgc[t]

\* C7 as stated: with the host stalled, the transmit calls succeed until N
\* (= RingSize) packets are published, and the call after them gets ENOBUFS.
C7_Original ==
    \A t \in TxThreads :
       (tpc[t] = "t_out" /\ trc[t] # "EINVAL" /\ HostStalled(tidx[t])) =>
          LET before == PublishedOn(tidx[t]) - (IF trc[t] = "0" THEN 1 ELSE 0)
          IN  trc[t] = "ENOBUFS" <=> before = RingSize

\* C7, amended: the ring counts descriptors, not packets.  With the host
\* stalled a transmit succeeds exactly if its chain fits the descriptors not
\* yet published, and otherwise returns ENOBUFS without tx_gc and with
\* tx_drops one higher; after the host completed chains that hold enough
\* descriptors, the call drains them with tx_gc and succeeds.
C7_Backpressure ==
    \A t \in TxThreads :
       (tpc[t] = "t_out" /\ trc[t] # "EINVAL") =>
          LET q == tidx[t]
              n == 1 + tfrags[t]
              before == SumDesc(txAvail[q]) - (IF trc[t] = "0" THEN n ELSE 0)
          IN  /\ HostStalled(q) =>
                   /\ trc[t] = "0" <=> n + before <= RingSize
                   /\ trc[t] # "0" => (trc[t] = "ENOBUFS" /\ ~tgc[t])
              /\ (n > tfree0[t] /\ tused0[t] > 0) =>
                   /\ tgc[t]
                   /\ n <= tfree0[t] + tused0[t] => trc[t] = "0"
              /\ trc[t] = "ENOBUFS" => txStats[q].tx_drops = tdrops0[t] + 1
              /\ trc[t] = "0" => txStats[q].tx_drops = tdrops0[t]

\* C7 witness: the ring was full, the host had completed a chain, and the
\* transmit succeeded after its internal tx_gc.
C7_Witness ==
    \E t \in TxThreads :
        /\ tpc[t] = "t_out" /\ trc[t] = "0" /\ tgc[t]
        /\ tfree0[t] = 0 /\ tused0[t] > 0

\* C8: every published cookie is deleted exactly once and only after the host
\* completed its chain; a chain whose descriptors tx_gc gave back to the free
\* list has had its cookie deleted.
C8_CookieOwnership ==
    /\ reclaimed \subseteq reqDeleted
    /\ reqDeletedTwice = {}
    /\ \A q \in TxQueues : Cookies(txAvail[q]) \subseteq reqLive

\* C9: the packets a thread enqueued successfully are the packets it
\* published, in the same order, whatever queue each call picked; every
\* available ring holds its publications in publication order.
C9_TxFifo ==
    /\ \A t \in TxThreads :
         PublishedBy(t) =
            IF tpc[t] = "t_out" /\ trc[t] = "0"
              THEN Append(tok[t], tcalls[t]) ELSE tok[t]
    /\ \A t \in TxThreads : \A i, j \in 1..Len(tok[t]) : i < j => tok[t][i] < tok[t][j]
    /\ \A q \in TxQueues :
         LET log == RingLog(q)
             held == txAvail[q]
         IN  /\ Len(held) <= Len(log)
             /\ \A i \in 1..Len(held) :
                   held[i].req = log[Len(log) - Len(held) + i]

\* C9 witness: a thread published two packets on different queues (it
\* migrated between the calls), the later one behind a packet of another
\* thread on the same ring.
C9_Witness ==
    \E q1, q2 \in TxQueues : \E i \in 1..Len(pubLog.on[q1]) : \E j, k \in 1..Len(pubLog.on[q2]) :
        /\ q1 # q2 /\ j < k
        /\ pubLog.on[q1][i][1] = pubLog.on[q2][k][1]
        /\ pubLog.on[q1][i][2] < pubLog.on[q2][k][2]
        /\ pubLog.on[q2][j][1] # pubLog.on[q2][k][1]

\* C10: at most one thread is between lock() and unlock(); a thread is there
\* exactly while it owns _tx_ring_lock (so every return path released it);
\* and the owner can always take its next step (it waits for nothing).
C10_LockDiscipline ==
    /\ \A t \in TxThreads : (tpc[t] \in InTx) <=> (tx_ring_lock = t)
    /\ Cardinality({t \in TxThreads : tpc[t] \in InTx}) <= 1
    /\ \A t \in TxThreads : tx_ring_lock = t => ENABLED TxStep(t)

\* C10 witness: a thread is on the EINVAL path, still holding the lock, while
\* another waits in lock().
C10_Witness ==
    \E t, u \in TxThreads :
        /\ t # u
        /\ tpc[t] = "t_out" /\ trc[t] = "EINVAL" /\ tx_ring_lock = t
        /\ tpc[u] = "t_lock"

\* ---------------------------------------------------------------------
\* Transport core: device bring-up (virtio_driver, rng::rng, net::net)
\* ---------------------------------------------------------------------

\* The checks of parse_pci_config, in the order it makes them.
PciFaults == {"none", "pci", "bar1", "rev", "id"}

\* Positions of the constructing thread at which the driver object exists
\* and probe_virt_queues (if the driver calls it) has returned.
AfterProbe == {"rng_ok", "rng_start", "live"}

\* set_dev_status(get_dev_status() | bits), mistaken for set_dev_status(bits).
add_dev_status_overwrite(st, bits) == bits

\* add_dev_status: read the status byte, or the bits in, write it back.
add_dev_status(st, bits) == st \cup bits

\* get_virt_queue: null (-1) at and beyond _num_queues, else the slot.
get_virt_queue(idx) ==
    IF idx >= dev.num_queues THEN -1
    ELSE IF idx \in dev.queues THEN idx ELSE -1

\* The bus hands a device to a driver: which driver, what its PCI
\* configuration looks like, whether it uses MSI-X, how many CPUs there are.
DeviceFound(kind, fault, msix, n) ==
    /\ UNCHANGED othersProbe
    /\ dev.dpc = "absent"
    /\ dev' = [dev EXCEPT !.dkind = kind, !.dfault = fault, !.dmsix = msix,
                          !.ncpus = n, !.dpc = "c_parse"]

\* virtio_driver::virtio_driver up to msix_enable: parse_pci_config runs and
\* its result is dropped. _bar1 is set once the PCI parse succeeded and the
\* BAR exists; the revision and device-id checks come after that.
CtorParse ==
    /\ UNCHANGED othersProbe
    /\ dev.dpc = "c_parse"
    /\ dev' = [dev EXCEPT !.bar1 = (dev.dfault \notin {"pci", "bar1"}),
                          !.dpc = "c_reset"]

\* reset_host_side: write 0 to the status byte through _bar1. With _bar1
\* null the write goes through a null pointer and the kernel faults.
CtorReset ==
    /\ UNCHANGED othersProbe
    /\ dev.dpc = "c_reset"
    /\ dev' = IF dev.bar1
                THEN [dev EXCEPT !.status = {}, !.dpc = "c_ack"]
                ELSE [dev EXCEPT !.dpc = "crashed"]

\* add_dev_status(ACKNOWLEDGE | DRIVER), then the constructor of the
\* specialization starts.
CtorAck ==
    /\ UNCHANGED othersProbe
    /\ dev.dpc = "c_ack"
    /\ dev' = [dev EXCEPT
                 !.status = add_dev_status(dev.status, {"ACKNOWLEDGE", "DRIVER"}),
                 !.dpc = IF dev.dkind = "rng" THEN "rng_probe" ELSE "net_body"]

\* One turn of the loop of probe_virt_queues. qsize is what the device
\* reports for the selected queue, vecok whether the MSI-X vector read back
\* is the one written.
ProbeVirtQueues(qsize, vecok) ==
    /\ UNCHANGED othersProbe
    /\ dev.dpc = "rng_probe"
    /\ dev' =
         IF dev.num_queues >= MaxVirtqueues
           THEN [dev EXCEPT !.probeStop = "cap", !.dpc = "rng_ok"]
         ELSE IF qsize = 0
           THEN [dev EXCEPT !.probeStop = "size0", !.dpc = "rng_ok"]
         ELSE IF dev.dmsix /\ ~vecok
           THEN [dev EXCEPT !.queues = @ \cup {dev.num_queues},
                            !.probeStop = "msix", !.dpc = "rng_ok"]
         ELSE [dev EXCEPT
                 !.queues = @ \cup {dev.num_queues},
                 !.vector = IF dev.dmsix THEN @ \cup {dev.num_queues} ELSE @,
                 !.num_queues = @ + 1,
                 !.pfn = @ \cup {dev.num_queues},
                 !.probeStop = IF dev.num_queues + 1 >= 2 * dev.ncpus
                                 THEN "ncpus" ELSE @,
                 !.dpc = IF dev.num_queues + 1 >= 2 * dev.ncpus
                           THEN "rng_ok" ELSE @]

\* rng::rng after the probe: _queue = get_virt_queue(0), DRIVER_OK.
RngCtorDriverOk ==
    /\ UNCHANGED othersProbe
    /\ dev.dpc = "rng_ok"
    /\ dev' = [dev EXCEPT !.rng_queue = get_virt_queue(0),
                          !.status = add_dev_status(dev.status, {"DRIVER_OK"}),
                          !.dpc = "rng_start"]

\* rng::rng, the end: _thread.start() and register_source(this).
RngCtorStart ==
    /\ UNCHANGED othersProbe
    /\ dev.dpc = "rng_start"
    /\ dev' = [dev EXCEPT !.registered = TRUE, !.dpc = "live"]

\* net::net: it probes no queue itself, so its three loops run over
\* _num_queues / 2 pairs of what the base constructor left; ether_ifattach
\* registers the interface; DRIVER_OK ends it.
NetCtor ==
    /\ UNCHANGED othersProbe
    /\ dev.dpc = "net_body"
    /\ dev' = [dev EXCEPT !.registered = TRUE,
                          !.status = add_dev_status(dev.status, {"DRIVER_OK"}),
                          !.dpc = "live"]

\* net::pick_txq on the CPU the sending thread runs on.
NetPickTxq(cpu) ==
    /\ UNCHANGED othersProbe
    /\ dev.dpc = "live" /\ dev.dkind = "net"
    /\ cpu < dev.ncpus
    /\ dev' = [dev EXCEPT !.picked = pick_txq(cpu)]

\* virtio_driver::~virtio_driver: reset_host_side, free_queues.
Teardown ==
    /\ UNCHANGED othersProbe
    /\ dev.dpc = "live"
    /\ dev' = [dev EXCEPT !.status = {}, !.queues = {}, !.dpc = "gone"]

NextProbe ==
    \/ \E kind \in {"rng", "net"}, fault \in PciFaults, msix \in BOOLEAN,
          n \in 1..Cardinality(Cpus) : DeviceFound(kind, fault, msix, n)
    \/ CtorParse
    \/ CtorReset
    \/ CtorAck
    \/ \E qsize \in {0, RingSize}, vecok \in BOOLEAN : ProbeVirtQueues(qsize, vecok)
    \/ RngCtorDriverOk
    \/ RngCtorStart
    \/ NetCtor
    \/ \E cpu \in Cpus : NetPickTxq(cpu)
    \/ Teardown

SpecProbe == Init /\ [][NextProbe]_vars

\* C12: every index pick_txq returns is below the number of queue pairs,
\* _num_queues / 2.
C12_PickBounded ==
    dev.picked # -1 => dev.picked < dev.num_queues \div 2

\* The status bits in the order the claim gives them.
StatusOrder == <<"ACKNOWLEDGE", "DRIVER", "FEATURES_OK", "DRIVER_OK">>

\* The step is one of the two writes of 0: the reset of the constructor or
\* the one of the destructor.
IsResetWrite == dev.dpc \in {"c_reset", "live"} /\ dev'.status = {}

\* C13 as stated: the status byte changes only by gaining bits, each bit
\* only once all bits before it in ACKNOWLEDGE, DRIVER, FEATURES_OK,
\* DRIVER_OK are set, or by a reset write of 0.
C13_Original ==
    [][dev'.status # dev.status =>
         \/ IsResetWrite
         \/ /\ dev.status \subseteq dev'.status
            /\ \A i, j \in 1..Len(StatusOrder) :
                  (i < j /\ StatusOrder[j] \in dev'.status)
                      => StatusOrder[i] \in dev'.status
      ]_vars

\* C13, amended: the status byte changes only by gaining bits or by a reset
\* write of 0; ACKNOWLEDGE and DRIVER are set by one write, DRIVER_OK only
\* when both were set before, and FEATURES_OK is never set.
C13_StatusProgression ==
    [][dev'.status # dev.status =>
         \/ IsResetWrite
         \/ /\ dev.status \subseteq dev'.status
            /\ "FEATURES_OK" \notin dev'.status
            /\ ("ACKNOWLEDGE" \in dev'.status) <=> ("DRIVER" \in dev'.status)
            /\ "DRIVER_OK" \in dev'.status
                  => {"ACKNOWLEDGE", "DRIVER"} \subseteq dev.status
      ]_vars

\* C13 witness: a driver went through the whole bring-up.
C13_Witness ==
    dev.dpc = "live" /\ dev.status = {"ACKNOWLEDGE", "DRIVER", "DRIVER_OK"}

\* C14: once parse_pci_config failed the device is abandoned: none of
\* ACKNOWLEDGE, DRIVER, DRIVER_OK is written, no queue is probed, no task is
\* started and nothing registered, and the status is marked FAILED by the
\* time the constructor is over.
C14_ProbeFailure ==
    (dev.dfault # "none" /\ dev.dpc \notin {"absent", "c_parse"}) =>
        /\ dev.status \cap {"ACKNOWLEDGE", "DRIVER", "DRIVER_OK"} = {}
        /\ dev.num_queues = 0 /\ dev.queues = {}
        /\ ~dev.registered
        /\ dev.dpc \in {"live", "gone", "crashed"} => "FAILED" \in dev.status

\* C15: after probe_virt_queues returned (it stops at a queue of size 0, at
\* max_virtqueues_nr or at 2 * ncpus queues), every index below _num_queues
\* holds a vring whose PFN was written and, with MSI-X, whose vector is its
\* index; no index at or beyond _num_queues holds a vring; get_virt_queue is
\* null exactly at and beyond _num_queues.
C15_QueueEnumeration ==
    (dev.dpc \in AfterProbe /\ dev.dkind = "rng") =>
        /\ dev.probeStop \in {"size0", "cap", "ncpus"}
        /\ \A i \in 0..MaxVirtqueues - 1 :
              /\ i < dev.num_queues =>
                    (i \in dev.queues /\ i \in dev.pfn
                       /\ (dev.dmsix => i \in dev.vector))
              /\ i >= dev.num_queues => i \notin dev.queues
        /\ \A idx \in 0..MaxVirtqueues :
              (get_virt_queue(idx) = -1) <=> (idx >= dev.num_queues)

\* ---------------------------------------------------------------------
\* Network device: construction, interrupt routing, RX poll task, refill
\* ---------------------------------------------------------------------

\* net::_hdr_size, as net::net computes it.
hdr_size(mrg) == IF mrg THEN NetHdrMrgSize ELSE NetHdrSize

\* Mutant of rx_too_short: the length is compared with the header size
\* alone.
rx_too_short_hdr_only(len0, mrg) == len0 < hdr_size(mrg)

\* receiver's test for a bad buffer: len < _hdr_size + ETHER_HDR_LEN.
rx_too_short(len0, mrg) == len0 < hdr_size(mrg) + EtherHdrLen

\* The values the host can put into num_buffers: the field exists only in
\* the mergeable-buffers header (nb = 1 stands for its absence).
NumBuffers(mrg) == IF mrg THEN 1..MaxNumBuffers ELSE {1}

\* vring::avail_ring_not_empty(): room to publish at least one more chain.
avail_ring_not_empty(free) == free > 0

\* vring::refill_ring_cond(): at least half of the ring is free.
refill_ring_cond(free) == 2 * free >= RxRingSize

\* Mutant of get_buf_elem: the newest completed chain is peeked instead of
\* the oldest.
get_buf_elem_newest(used) == IF used = <<>> THEN NoChain ELSE used[Len(used)]

\* vring::get_buf_elem(): the next completed chain, not yet consumed.
get_buf_elem(used) == IF used = <<>> THEN NoChain ELSE Head(used)

\* What a handler registered with [&] reads from the constructor's 'idx':
\* the current value while net::net runs, anything once it has returned
\* (1 stands for every value that is not the index of the pair).
IdxSeen == IF rx.npc = "done" THEN {0, 1} ELSE {rx.cidx}

\* A mutation of the RX vring is in progress in thread t: it staged a
\* buffer that add_buf has not published yet, or it peeked a chain that
\* get_buf_finalize has not consumed yet.
RxMutating(t) ==
    IF t = "poll"
      THEN \/ rx.fpc[t] = "f_add"
           \/ rx.rpc = "r_loop" /\ rx.cur.m # 0
      ELSE rx.fpc[t] = "f_add"

\* The device is bound to the net driver; whether it uses MSI-X is the
\* device's, _mergeable_bufs is whatever the member holds (read_config,
\* which would set it, is not called).
NetFound(msix, mrg) ==
    /\ UNCHANGED othersRx
    /\ rx.npc = "absent"
    /\ rx' = [rx EXCEPT !.msix = msix, !.mrg = mrg, !.npc = "n_start"]

\* net::net up to ether_ifattach: the queues of the pair are wrapped and
\* the poll task is started; the loops leave idx at the number of pairs.
NetStartPollTasks ==
    /\ UNCHANGED othersRx
    /\ rx.npc = "n_start"
    /\ rx' = [rx EXCEPT !.task = "running", !.rpc = "w_check1",
                        !.cidx = 1, !.npc = "n_reg"]

\* net::net, the last loop for the pair: the handlers are registered and
\* fill_rx_ring(idx) is entered on the constructing thread.
NetRegister ==
    /\ UNCHANGED othersRx
    /\ rx.npc = "n_reg"
    /\ rx' = [rx EXCEPT !.cidx = 0, !.reg = TRUE,
                        !.fpc["ctor"] = "f_loop", !.added["ctor"] = 0,
                        !.npc = "n_fill"]

\* net::net, the end: fill_rx_ring returned, the loop ends (idx is the
\* number of pairs again), DRIVER_OK is added, the constructor returns.
NetDriverOk ==
    /\ UNCHANGED othersRx
    /\ rx.npc = "n_fill" /\ rx.fpc["ctor"] = "f_done"
    /\ rx' = [rx EXCEPT !.fpc["ctor"] = "idle", !.cidx = 1,
                        !.status = add_dev_status(rx.status, {"DRIVER_OK"}),
                        !.npc = "done"]

(* --------------------------- net::fill_rx_ring ------------------------- *)

\* while (vq->avail_ring_not_empty()) { m = m_getjcl(...); if (!m) break;
\* 'ok' is whether the allocator has a buffer to give.
FillLoop(t, ok) ==
    /\ UNCHANGED othersRx
    /\ rx.fpc[t] = "f_loop"
    /\ rx' = IF ~avail_ring_not_empty(rx.free)
               THEN [rx EXCEPT !.fpc[t] = "f_kick"]
             ELSE IF ok /\ rx.nalloc < MaxRxBufs
               THEN [rx EXCEPT !.nalloc = @ + 1, !.fbuf[t] = rx.nalloc + 1,
                               !.fpc[t] = "f_stage"]
             ELSE [rx EXCEPT !.fpc[t] = "f_kick"]

\*   vq->init_sg(); vq->add_in_sg(mdata, m->m_hdr.mh_len);
FillStage(t) ==
    /\ UNCHANGED othersRx
    /\ rx.fpc[t] = "f_stage"
    /\ rx' = [rx EXCEPT !.sg = <<rx.fbuf[t]>>, !.fpc[t] = "f_add"]

\*   if (!vq->add_buf(m)) { m_freem(m); break; }  added++;  }
FillAddBuf(t) ==
    /\ UNCHANGED othersRx
    /\ rx.fpc[t] = "f_add"
    /\ rx' = IF Len(rx.sg) <= rx.free
               THEN [rx EXCEPT !.free = @ - Len(rx.sg),
                               !.avail = Append(@, rx.fbuf[t]),
                               !.sg = <<>>,
                               !.added[t] = @ + 1,
                               !.fpc[t] = "f_loop",
                               !.fbuf[t] = 0]
               ELSE [rx EXCEPT !.fpc[t] = "f_kick", !.fbuf[t] = 0]

\* Mutant of FillEnd: the host is kicked whether or not a buffer was added.
FillEnd_KickAlways(t) ==
    /\ UNCHANGED othersRx
    /\ rx.fpc[t] = "f_kick"
    /\ rx' = [rx EXCEPT !.kick = TRUE, !.fpc[t] = "f_done", !.added[t] = 0]

\* if (added) vq->kick();  and fill_rx_ring returns.
FillEnd(t) ==
    /\ UNCHANGED othersRx
    /\ rx.fpc[t] = "f_kick"
    /\ rx' = [rx EXCEPT !.kick = (rx.added[t] > 0), !.fpc[t] = "f_done",
                        !.added[t] = 0]

FillStep(t) ==
    \/ \E ok \in BOOLEAN : FillLoop(t, ok)
    \/ FillStage(t)
    \/ FillAddBuf(t)
    \/ FillEnd(t)

(* ------------- net::receiver: wait_for_queue on the RX vring ----------- *)

\* wait_until evaluates the predicate: have_elements = used_ring_not_empty()
RxWaitCheck1 ==
    /\ UNCHANGED othersRx
    /\ rx.rpc = "w_check1"
    /\ LET have == used_ring_not_empty(Len(rx.used)) IN
       rx' = IF have
               THEN [rx EXCEPT !.have = have, !.rpc = "r_get", !.task = "running"]
               ELSE [rx EXCEPT !.have = have, !.rpc = "w_enable", !.task = "waiting"]

\*   if (!have_elements) { queue->enable_interrupts();
RxWaitEnable ==
    /\ UNCHANGED othersRx
    /\ rx.rpc = "w_enable"
    /\ rx' = [rx EXCEPT !.intOn = TRUE, !.rpc = "w_check2"]

\*   have_elements = (queue->*pred)();   (the recheck)
RxWaitCheck2 ==
    /\ UNCHANGED othersRx
    /\ rx.rpc = "w_check2"
    /\ LET have == used_ring_not_empty(Len(rx.used)) IN
       rx' = [rx EXCEPT !.have = have,
                        !.rpc = IF have THEN "w_disable" ELSE "w_wait"]

\*   if (have_elements) queue->disable_interrupts();  return have_elements;
RxWaitDisable ==
    /\ UNCHANGED othersRx
    /\ rx.rpc = "w_disable"
    /\ rx' = [rx EXCEPT !.intOn = FALSE, !.task = "running", !.rpc = "r_get"]

\* The predicate returned false: the task sleeps until it is woken, then
\* wait_until evaluates the predicate again.
RxWaitSleep ==
    /\ UNCHANGED othersRx
    /\ rx.rpc = "w_wait"
    /\ rx.task = "running"
    /\ rx' = [rx EXCEPT !.rpc = "w_check1"]

(* ----------------------- net::receiver: the drain ---------------------- *)

\* m = get_buf_elem(&len); the local counters start at 0.
RxGetFirst ==
    /\ UNCHANGED othersRx
    /\ rx.rpc = "r_get"
    /\ rx' = [rx EXCEPT !.cur = get_buf_elem(rx.used), !.loc = ZeroRxStats,
                        !.rpc = "r_loop"]

\* while (m != nullptr) { get_buf_finalize(); if (len < _hdr_size +
\* ETHER_HDR_LEN) { rx_drops++; m_free(m); m = get_buf_elem(&len); continue; }
\* nbufs = mergeable ? mhdr->num_buffers : 1; the head of the frame is set up.
RxLoopHead ==
    /\ UNCHANGED othersRx
    /\ rx.rpc = "r_loop"
    /\ rx' = IF rx.cur.m = 0
               THEN [rx EXCEPT !.rpc = "r_refill"]
             ELSE IF rx_too_short(rx.cur.len, rx.mrg)
               THEN [rx EXCEPT !.used = Tail(@), !.free = @ + 1,
                               !.loc.rx_drops = @ + 1,
                               !.dropLog = Append(@, rx.cur.m),
                               !.cur = get_buf_elem(Tail(rx.used)),
                               !.rpc = "r_loop"]
             ELSE [rx EXCEPT !.used = Tail(@), !.free = @ + 1,
                             !.nbufs = IF ~rx.mrg THEN 1 ELSE rx.cur.nb,
                             !.pktlen = rx.cur.len,
                             !.frame = <<rx.cur.m>>,
                             !.rpc = "r_frag"]

\* One turn of  while (--nbufs > 0) { m = get_buf_elem(&len);
\* if (m == nullptr) { rx_drops++; break; }  get_buf_finalize(); the
\* fragment, cut to its buffer, is linked to the tail }.
RxFrag ==
    /\ UNCHANGED othersRx
    /\ rx.rpc = "r_frag"
    /\ LET m == get_buf_elem(rx.used) IN
       rx' = IF rx.nbufs - 1 > 0
               THEN IF m.m = 0
                      THEN [rx EXCEPT !.nbufs = @ - 1, !.cur = m,
                                      !.loc.rx_drops = @ + 1,
                                      !.rpc = "r_deliver"]
                      ELSE [rx EXCEPT !.nbufs = @ - 1, !.cur = m,
                                      !.used = Tail(@), !.free = @ + 1,
                                      !.pktlen = @ + Min(m.len, MCLBYTES),
                                      !.frame = Append(@, m.m),
                                      !.rpc = "r_frag"]
               ELSE [rx EXCEPT !.nbufs = @ - 1, !.rpc = "r_deliver"]

\* m_adj(m_head, offset); rx_packets++, rx_bytes += pkthdr.len; the frame
\* goes to the classifier or to if_input; the drain stops if the interface
\* was stopped meanwhile ('running' is IFF_DRV_RUNNING as read here), else
\* m = get_buf_elem(&len). The frame's locals end with the loop body. The
\* checksum verdict moves only rx_csum and rx_csum_err, which are left out.
RxDeliver(running) ==
    /\ UNCHANGED othersRx
    /\ rx.rpc = "r_deliver"
    /\ rx' = [rx EXCEPT
                !.loc.rx_packets = @ + 1,
                !.loc.rx_bytes = @ + (rx.pktlen - hdr_size(rx.mrg)),
                !.upLog = Append(@, rx.frame),
                !.frame = <<>>, !.pktlen = 0, !.nbufs = 0,
                !.rpc = IF ~running THEN "r_refill" ELSE "r_loop",
                !.cur = IF ~running THEN NoChain ELSE get_buf_elem(rx.used)]

\* if (vq->refill_ring_cond()) fill_rx_ring(idx);   (the call)
RxRefill ==
    /\ UNCHANGED othersRx
    /\ rx.rpc = "r_refill"
    /\ rx' = IF refill_ring_cond(rx.free)
               THEN [rx EXCEPT !.fpc["poll"] = "f_loop", !.added["poll"] = 0,
                               !.rpc = "r_fill"]
               ELSE [rx EXCEPT !.rpc = "r_stats"]

\* fill_rx_ring returned, or was not called: rxq->stats += the locals, and
\* the task goes round to wait_for_queue (the locals of the loop body end).
RxStatsUpdate ==
    /\ UNCHANGED othersRx
    /\ \/ rx.rpc = "r_stats"
       \/ rx.rpc = "r_fill" /\ rx.fpc["poll"] = "f_done"
    /\ rx' = [rx EXCEPT
                !.stats = [k \in DOMAIN rx.stats |-> rx.stats[k] + rx.loc[k]],
                !.loc = ZeroRxStats,
                !.cur = NoChain,
                !.fpc["poll"] = "idle",
                !.rpc = "w_check1"]

ReceiverStep ==
    \/ RxWaitCheck1 \/ RxWaitEnable \/ RxWaitCheck2 \/ RxWaitDisable
    \/ RxWaitSleep
    \/ RxGetFirst
    \/ RxLoopHead
    \/ RxFrag
    \/ \E running \in BOOLEAN : RxDeliver(running)
    \/ RxRefill
    \/ RxStatsUpdate

(* ------------------- the host and the interrupt handlers --------------- *)

\* The host completes the oldest published receive buffer: it wrote len0
\* bytes, with num_buffers = nb in the header, and raises the interrupt of
\* the RX vring unless the guest disabled it.
RxHostComplete(len0, nb) ==
    /\ UNCHANGED othersRx
    /\ rx.avail # <<>>
    /\ nb \in NumBuffers(rx.mrg)
    /\ rx' = [rx EXCEPT
                !.avail = Tail(@),
                !.used = Append(@, [m |-> Head(rx.avail), len |-> len0, nb |-> nb]),
                !.hostLog = Append(@, Head(rx.avail)),
                !.rxIrq = (@ \/ (rx.intOn /\ rx.msix)),
                !.isr = (@ \/ (rx.intOn /\ ~rx.msix))]

\* The host completes a transmitted chain and raises the interrupt of the
\* TX vring (there are transmissions only once the interface is up).
NetTxHostComplete ==
    /\ UNCHANGED othersRx
    /\ rx.npc = "done" /\ rx.txIntOn
    /\ rx' = [rx EXCEPT !.txIrq = (@ \/ rx.msix), !.isr = (@ \/ ~rx.msix)]

\* MSI-X vector 2 * idx + 1: [&] { _txq[idx]->vqueue->disable_interrupts(); }
\* runs with the idx it finds (v); no task is woken.
MsixTxIrq(v) ==
    /\ UNCHANGED othersRx
    /\ rx.msix /\ rx.reg /\ rx.txIrq
    /\ v \in IdxSeen
    /\ rx' = [rx EXCEPT !.txIrq = FALSE,
                        !.txIntOn = IF v = 0 THEN FALSE ELSE @]

\* MSI-X vector 2 * idx: the handler [&] { _rxq[idx]->vqueue->
\* disable_interrupts(); } runs with the idx it finds (v), then the poll
\* task bound at registration is woken.
MsixRxIrq(v) ==
    /\ UNCHANGED othersRx
    /\ rx.msix /\ rx.reg /\ rx.rxIrq
    /\ v \in IdxSeen
    /\ rx' = [rx EXCEPT !.rxIrq = FALSE,
                        !.intOn = IF v = 0 THEN FALSE ELSE @,
                        !.task = thread_wake(@)]

\* The legacy line fires (it is shared, so also for others): net::ack_irq
\* reads the ISR, which clears it; if it was set the RX interrupts are
\* disabled and the handler wakes the poll task.
LegacyIrq ==
    /\ UNCHANGED othersRx
    /\ ~rx.msix /\ rx.reg
    /\ rx' = [rx EXCEPT !.isr = FALSE,
                        !.intOn = IF rx.isr THEN FALSE ELSE @,
                        !.task = IF rx.isr THEN thread_wake(@) ELSE @]

\* A wakeup of the poll task that no interrupt caused.
RxSpuriousWake ==
    /\ UNCHANGED othersRx
    /\ rx.task = "waiting"
    /\ rx' = [rx EXCEPT !.task = "running"]

NextRx ==
    \/ \E msix, mrg \in BOOLEAN : NetFound(msix, mrg)
    \/ NetStartPollTasks
    \/ NetRegister
    \/ NetDriverOk
    \/ \E t \in RxThreads : FillStep(t)
    \/ ReceiverStep
    \/ \E len0 \in RxLens, nb \in 1..MaxNumBuffers : RxHostComplete(len0, nb)
    \/ NetTxHostComplete
    \/ \E v \in {0, 1} : MsixRxIrq(v)
    \/ \E v \in {0, 1} : MsixTxIrq(v)
    \/ LegacyIrq
    \/ RxSpuriousWake

SpecRx == Init /\ [][NextRx]_vars

\* C11: every vring is mutated by one thread at a time, the RX vring only
\* by its poll task - also while net::net, which started the poll task
\* before, runs the first fill_rx_ring on the constructing thread.
C11_SingleOwner ==
    /\ Cardinality({t \in RxThreads : RxMutating(t)}) <= 1
    /\ ~RxMutating("ctor")

\* C16: once the device is constructed, with MSI-X the interrupt of vector
\* 2i disables the interrupts of RX vring i and wakes poll task i, and the
\* one of vector 2i+1 disables the interrupts of TX vring i; without MSI-X
\* the legacy handler disables the RX interrupts and wakes the poll task
\* exactly when the ISR reads non-zero.
C16_InterruptRouting ==
    [][/\ (rx.msix /\ rx.npc = "done" /\ rx.rxIrq /\ ~rx'.rxIrq) =>
            (~rx'.intOn /\ rx'.task = thread_wake(rx.task))
       /\ (rx.msix /\ rx.npc = "done" /\ rx.txIrq /\ ~rx'.txIrq) => ~rx'.txIntOn
       /\ (~rx.msix /\ rx.isr /\ ~rx'.isr) =>
            (~rx'.intOn /\ rx'.task = thread_wake(rx.task))
       /\ (~rx.msix /\ rx.intOn /\ ~rx'.intOn /\ rx.rpc # "w_disable") => rx.isr
      ]_vars

\* The poll task consumes the oldest chain of the used ring in this step.
RxConsumes == Len(rx'.used) < Len(rx.used)

\* What the receiver does with a buffer it finds too short: one more drop
\* counted, the buffer freed, nothing handed up and nothing counted as a
\* packet, and the drain goes on with the next completion.
RxDropsIt(chain) ==
    /\ rx'.loc.rx_drops = rx.loc.rx_drops + 1
    /\ rx'.dropLog = Append(rx.dropLog, chain.m)
    /\ rx'.upLog = rx.upLog
    /\ rx'.loc.rx_packets = rx.loc.rx_packets
    /\ rx'.loc.rx_bytes = rx.loc.rx_bytes
    /\ rx'.rpc = "r_loop" /\ rx'.cur = get_buf_elem(rx'.used)
    /\ \A i \in 1..Len(rx'.upLog) :
          \A k \in 1..Len(rx'.upLog[i]) : rx'.upLog[i][k] # chain.m

\* C17 as stated: every completed chain whose written length is below
\* header size plus ethernet header size is finalized and dropped.
C17_Original ==
    [][(RxConsumes /\ Head(rx.used).len < hdr_size(rx.mrg) + EtherHdrLen)
          => RxDropsIt(Head(rx.used))]_vars

\* C17, amended: every completed chain that the poll task takes as the
\* first buffer of a frame and whose written length is below header size
\* plus ethernet header size is finalized and dropped.
C17_ShortHead ==
    [][(RxConsumes /\ rx.rpc = "r_loop"
         /\ Head(rx.used).len < hdr_size(rx.mrg) + EtherHdrLen)
          => RxDropsIt(Head(rx.used))]_vars

\* C17 witness: the poll task dropped a short buffer and went on with the
\* next completion, which it holds.
C17_Witness ==
    /\ rx.rpc = "r_loop" /\ rx.cur.m # 0
    /\ rx.loc.rx_drops = 1 /\ Len(rx.dropLog) = 1
    /\ rx.upLog = <<>>

\* Position of buffer b in the order of the host's completions (0: none).
HostPos(b) ==
    IF \E i \in 1..Len(rx.hostLog) : rx.hostLog[i] = b
      THEN CHOOSE i \in 1..Len(rx.hostLog) : rx.hostLog[i] = b
      ELSE 0

\* Every buffer the receiver disposed of, frames first, then drops.
RECURSIVE Flatten(_)
Flatten(frames) ==
    IF frames = <<>> THEN <<>> ELSE Head(frames) \o Flatten(Tail(frames))

\* C18: frames reach the upper layer in the order in which the host
\* completed their head chains, and every completed chain is delivered or
\* dropped at most once (and only if the host completed it).
C18_RxOrder ==
    LET done == Flatten(rx.upLog) \o rx.dropLog IN
    /\ \A i, j \in 1..Len(rx.upLog) :
          i < j => HostPos(rx.upLog[i][1]) < HostPos(rx.upLog[j][1])
    /\ \A i, j \in 1..Len(done) : i # j => done[i] # done[j]
    /\ \A i \in 1..Len(done) : HostPos(done[i]) > 0

\* C18 witness: two frames were handed up.
C18_Witness ==
    Len(rx.upLog) = 2

\* C19: when the allocation fails in fill_rx_ring (the ring still has
\* room, the loop is left) nothing more is allocated or published, what was
\* published stays so, the queue's drop counter counts the failure; at the
\* end the host is kicked exactly if a buffer was added.
C19_RefillFailure ==
    [][\A t \in RxThreads :
         /\ (rx.fpc[t] = "f_loop" /\ rx'.fpc[t] = "f_kick"
               /\ avail_ring_not_empty(rx.free)) =>
               /\ rx'.avail = rx.avail /\ rx'.nalloc = rx.nalloc
               /\ rx'.stats.rx_drops + rx'.loc.rx_drops
                    = rx.stats.rx_drops + rx.loc.rx_drops + 1
         /\ (rx.fpc[t] = "f_kick" /\ rx'.fpc[t] = "f_done") =>
               (rx'.kick = (rx.added[t] > 0))
      ]_vars

\* ---------------------------------------------------------------------
\* Entropy device: interruption of a thread waiting on a condition variable
\* ---------------------------------------------------------------------

\* Thread t, waiting in _consumer.wait_until (a consumer) or in
\* _producer.wait_until (the worker), is interrupted: it is made runnable
\* without the condition having been signalled. Neither get_random_bytes
\* nor worker looks for an interruption, so what follows is wait_until's
\* loop: the mutex is taken again and the predicate evaluated.
ThreadInterrupt(t) ==
    /\ UNCHANGED othersIntr
    /\ t \notin interrupted
    /\ IF t = Producer
          THEN /\ ppc = "p_sleep" /\ producerWait
               /\ producerWait' = FALSE
               /\ consumerWait' = consumerWait
          ELSE /\ cpc[t] = "c_sleep" /\ t \in consumerWait
               /\ consumerWait' = consumerWait \ {t}
               /\ producerWait' = producerWait
    /\ interrupted' = interrupted \cup {t}
    /\ UNCHANGED <<entropy, mtx, prodVars, consVars, ringVars>>

NextRngIntr ==
    \/ NextRng
    \/ \E t \in Consumers \cup {Producer} : ThreadInterrupt(t)

SpecRngIntr == Init /\ [][NextRngIntr]_vars

\* C20: a consumer interrupted in its wait returns 0 and leaves the pool
\* as it is; the producer interrupted in its wait leaves its loop.
C20_Cancellation ==
    [][/\ \A c \in Consumers :
            (c \in interrupted /\ cpc[c] = "c_check" /\ cpc'[c] # "c_check") =>
                (cpc'[c] = "idle" /\ entropy' = entropy /\ delivered' = delivered)
       /\ (Producer \in interrupted /\ ppc = "p_check" /\ ppc' # "p_check") =>
                ppc' = "exited"
      ]_vars

(* =============== claims: the scenarios of the entropy device ============ *)

\* Half of the pool size: the request of the drain scenario (32 of 64).
HalfPool == PoolSize \div 2

\* The read of the drain scenario: consumer c, asking for half a pool, does
\* its copy-out on a pool that holds exactly the first PoolSize bytes of the
\* host.
DrainRead(c) ==
    /\ cpc[c] = "c_take" /\ cpc'[c] = "idle"
    /\ csize[c] = HalfPool
    /\ entropy = Tokens(0, PoolSize)

\* What the drain scenario says of the read: the consumer gets exactly the
\* first half of the host's bytes and the pool keeps the rest.
DrainReadResult ==
    /\ delivered' = Tokens(0, HalfPool)
    /\ entropy' = [i \in 1..(PoolSize - HalfPool) |-> HalfPool + i]

\* The state the read of the drain scenario leaves, for as long as the pool
\* still holds what the read left in it.
DrainState ==
    /\ nProduced = PoolSize
    /\ delivered = Tokens(0, HalfPool)
    /\ entropy = [i \in 1..(PoolSize - HalfPool) |-> HalfPool + i]

\* The producer publishes a buffer to the host in this step.
RngPublishes == rngAvail = 0 /\ rngAvail' > 0

\* C21 as stated: in the drain scenario the consumer receives the first
\* half of the host's bytes, the pool retains the other half, and the
\* producer publishes no new buffer while the pool still holds that half.
C21_Original ==
    [][/\ \A c \in Consumers : DrainRead(c) => DrainReadResult
       /\ DrainState => ~RngPublishes
      ]_vars

\* C21, amended: in the drain scenario the consumer receives the first half
\* of the host's bytes and the pool retains the other half; the read does
\* re-trigger the producer: it takes the producer off its condition, the
\* producer's predicate |pool| < P holds, and a buffer the producer
\* publishes has the size P - |pool| that refill found under the mutex.
C21_Drain ==
    [][/\ \A c \in Consumers :
             DrainRead(c) =>
                 (DrainReadResult /\ ~producerWait' /\ worker_pred(entropy'))
       /\ (ppc = "r_begin" /\ ppc' = "r_stage") =>
             remaining' = PoolSize - Len(entropy)
       /\ RngPublishes => rngAvail' = remaining
      ]_vars

\* C21 witness: after the read of the drain scenario the producer has
\* published a buffer for the missing half, the pool still holding the other.
C21_Witness ==
    DrainState /\ rngAvail = PoolSize - HalfPool

\* The host has so far returned the byte of one short completion only: one
\* byte (16 of 64, scaled down) where the buffer, published on an empty
\* pool, asked for PoolSize (completions of no byte at all leave the
\* scenario where it was).
ShortCompletion == nProduced = 1 /\ PoolSize > 1

\* The producer appends the buffer of the short completion in this step.
ShortAppend ==
    /\ ppc = "r_append" /\ ppc' = "p_lock"
    /\ ShortCompletion /\ Len(buf) = nProduced

\* Consumer c, asking for a whole pool, does the first copy-out of all
\* while the host has returned the short completion only.
ShortRead(c) ==
    /\ cpc[c] = "c_take" /\ cpc'[c] = "idle"
    /\ csize[c] = PoolSize
    /\ ShortCompletion /\ delivered = <<>>

\* The producer enters refill (and sizes its buffer) in this step.
RefillStarts == ppc = "r_begin" /\ ppc' = "r_stage"

\* C22 as stated: after a short completion the producer appends exactly the
\* bytes returned, a consumer asking for a whole pool receives them, and
\* the refill that follows publishes a buffer of exactly the bytes the host
\* left out, however the consumer and the producer interleave.
C22_Original ==
    [][/\ ShortAppend => entropy' = Tokens(0, nProduced)
       /\ \A c \in Consumers : ShortRead(c) => delivered' = Tokens(0, nProduced)
       /\ (RefillStarts /\ ShortCompletion) => remaining' = PoolSize - nProduced
       /\ (RngPublishes /\ ShortCompletion) => rngAvail' = PoolSize - nProduced
      ]_vars

\* C22, amended: after a short completion the producer appends exactly the
\* bytes returned, and a consumer asking for a whole pool that reads before
\* more is returned receives them; the refill that follows publishes a
\* buffer of P - |pool| bytes for the pool as it finds it: the bytes the
\* host left out if the consumer has not read yet, a whole pool if it has.
C22_ShortCompletion ==
    [][/\ ShortAppend => entropy' = Tokens(0, nProduced)
       /\ \A c \in Consumers : ShortRead(c) => delivered' = Tokens(0, nProduced)
       /\ (RefillStarts /\ ShortCompletion) =>
             /\ remaining' = PoolSize - Len(entropy)
             /\ delivered = <<>> => remaining' = PoolSize - nProduced
             /\ Len(delivered) = nProduced => remaining' = PoolSize
       /\ (RngPublishes /\ ShortCompletion) => rngAvail' = remaining
      ]_vars

\* C22 witness: the consumer received the bytes of the short completion and
\* the producer has published a buffer for the bytes the host left out.
C22_Witness ==
    /\ ShortCompletion
    /\ delivered = Tokens(0, nProduced)
    /\ rngAvail = PoolSize - nProduced

(* ================= claims: network device, accounting ================== *)

\* Thread t's call reaches `out:' of tx_locked in this step.
TxReachesOut(t) == tpc[t] # "t_out" /\ tpc'[t] = "t_out"

\* The counters of queue q move as the outcome rc of a packet of `bytes'
\* bytes asks for: one outcome counter up by one, tx_bytes along with
\* tx_packets, nothing else.
TxCounted(q, rc, bytes) ==
    LET old == txStats[q]
        new == txStats'[q]
        d == [k \in DOMAIN old |-> new[k] - old[k]]
    IN  CASE rc = "0" ->
               d = [tx_packets |-> 1, tx_bytes |-> bytes, tx_drops |-> 0, tx_err |-> 0]
          [] rc = "ENOBUFS" ->
               d = [tx_packets |-> 0, tx_bytes |-> 0, tx_drops |-> 1, tx_err |-> 0]
          [] OTHER ->
               d = [tx_packets |-> 0, tx_bytes |-> 0, tx_drops |-> 0, tx_err |-> 1]

\* C23: every transmit call moves the counters of the queue it selected
\* exactly once, by its outcome: tx_packets and tx_bytes (by the non-empty
\* fragments' bytes) when it returns 0, tx_drops for ENOBUFS, tx_err for
\* any other error; no other counter and no other queue moves, and the
\* call returns the code it counted.
C23_TxAccounting ==
    [][/\ \A t \in TxThreads :
            /\ TxReachesOut(t) =>
                  /\ TxCounted(tidx'[t], trc'[t], tfrags'[t])
                  /\ \A q \in TxQueues \ {tidx'[t]} : txStats'[q] = txStats[q]
            /\ tpc[t] = "t_out" => tpc'[t] \in {"t_out", "idle"}
            /\ (tpc[t] # "idle" /\ tpc'[t] = "idle") =>
                  /\ tpc[t] = "t_out"
                  /\ (tok'[t] # tok[t]) <=> (trc[t] = "0")
       /\ txStats' # txStats => \E t \in TxThreads : TxReachesOut(t)
      ]_vars

\* C23 witness: calls have ended in each of the three ways.
C23_Witness ==
    /\ \E q \in TxQueues : txStats[q].tx_packets > 0 /\ txStats[q].tx_bytes > 0
    /\ \E q \in TxQueues : txStats[q].tx_drops > 0
    /\ \E q \in TxQueues : txStats[q].tx_err > 0

\* C24: each frame the poll task has processed is counted in exactly one of
\* rx_drops and rx_packets: the frames counted as packets are those handed
\* to the upper layer, the frames counted as drops are those discarded, and
\* none is both - also a frame whose num_buffers announces more fragments
\* than the used ring holds. (Stated between frames: the counters of the
\* queue together with the poll task's local ones.)
C24_RxAccounting ==
    rx.rpc \notin {"r_frag", "r_deliver"} =>
        /\ rx.stats.rx_packets + rx.loc.rx_packets = Len(rx.upLog)
        /\ rx.stats.rx_drops + rx.loc.rx_drops = Len(rx.dropLog)

(* ------------------ net::fill_stats (via if_getinfo) ------------------- *)

\* The output counters of out_data after if_getinfo's memcpy of
\* ifp->if_data: the driver never moves the ifnet's own counters. `ok' is
\* whether every assertion passed so far.
IfData0 == [ok |-> TRUE, opackets |-> 0, obytes |-> 0, oerrors |-> 0]

\* net::fill_qstats(const struct txq*, out_data): the assertion, then the
\* three additions. A failed assertion aborts: nothing is added any more.
fill_qstats_tx(out, st) ==
    IF ~out.ok THEN out
    ELSE IF ~(out.oerrors = 0 /\ out.obytes = 0 /\ out.opackets = 0)
      THEN [out EXCEPT !.ok = FALSE]
    ELSE [out EXCEPT !.opackets = @ + st.tx_packets,
                     !.obytes = @ + st.tx_bytes,
                     !.oerrors = @ + st.tx_err + st.tx_drops]

\* net::fill_stats: for (idx = 0; idx < _num_queues / 2; idx++) from idx on,
\* over `pairs' queue pairs (fill_qstats of an RX queue moves the input
\* counters only).
RECURSIVE fill_stats(_, _, _, _)
fill_stats(out, stats, idx, pairs) ==
    IF idx >= pairs THEN out
    ELSE fill_stats(fill_qstats_tx(out, stats[idx]), stats, idx + 1, pairs)

\* The sum of f over the TX queues below idx.
RECURSIVE SumTx(_, _)
SumTx(f(_), idx) ==
    IF idx = 0 THEN 0 ELSE f(txStats[idx - 1]) + SumTx(f, idx - 1)

\* C25: whenever if_getinfo is called, fill_stats passes the assertion of
\* fill_qstats for every TX queue and reports as output totals the sums of
\* tx_packets, of tx_bytes and of tx_err + tx_drops over all TX queues.
C25_FillStats ==
    LET pairs == Cardinality(TxQueues)
        out == fill_stats(IfData0, txStats, 0, pairs)
    IN  /\ out.ok
        /\ out.opackets = SumTx(LAMBDA st : st.tx_packets, pairs)
        /\ out.obytes = SumTx(LAMBDA st : st.tx_bytes, pairs)
        /\ out.oerrors = SumTx(LAMBDA st : st.tx_err + st.tx_drops, pairs)

(* ================== claims: wait_for_queue, interrupts ================= *)

\* C26: whenever wait_for_queue has returned to its caller - the rng
\* producer in refill, the RX poll task in receiver - and the caller is
\* about to drain, the interrupts of the queue are disabled.
C26_ReturnsDisabled ==
    /\ ppc = "r_get" => ~intEnabled
    /\ rx.rpc = "r_get" => ~rx.intOn

(* ==================== claims: entropy device, progress ================= *)

\* The history of handed-out bytes is dropped and the bytes still in the
\* pool and in the producer's buffer are renumbered from 1: the host's
\* supply of bytes is unbounded, MaxBytes bounds only what is remembered.
RngForgetDelivered ==
    /\ UNCHANGED othersRng
    /\ delivered # <<>>
    /\ LET k == Len(delivered)
       IN  /\ entropy' = [i \in 1..Len(entropy) |-> entropy[i] - k]
           /\ buf' = [i \in 1..Len(buf) |-> buf[i] - k]
           /\ nProduced' = nProduced - k
    /\ delivered' = <<>>
    /\ UNCHANGED <<mtx, producerWait, consumerWait, prodVars, cpc, csize,
                   rngAvail, rngUsed, rngUsedLen, intEnabled, isr>>

\* The steps by which consumer c goes on with a call it has made.
GetRandomBytesRun(c) ==
    \/ GetRandomBytesWaitUntil(c)
    \/ GetRandomBytesWoken(c)
    \/ GetRandomBytesTake(c)

\* The host returns at least one byte for a published buffer.
RngHostCompleteSome == \E n \in 1..PoolSize : RngHostComplete(n)

\* The entropy device with a host that returns at least one byte for every
\* buffer, for as long as it runs.
NextRngLive ==
    \/ ProducerStep
    \/ ConsumerStep
    \/ RngHostCompleteSome
    \/ RngIrq
    \/ RngSpuriousWake
    \/ RngForgetDelivered

\* Fair scheduling: the producer and every consumer with a call in progress
\* run again and again whenever they can (also when the mutex they need is
\* free only from time to time), interrupts are delivered, and the host
\* completes every published buffer.
FairSpecRngLive ==
    /\ Init /\ [][NextRngLive]_vars
    /\ SF_vars(ProducerStep)
    /\ \A c \in Consumers : SF_vars(GetRandomBytesRun(c))
    /\ WF_vars(RngHostCompleteSome)
    /\ WF_vars(RngIrq)
    /\ WF_vars(RngForgetDelivered)

\* C27: every call of get_random_bytes that asks for at least one byte
\* returns in the end, and the producer is never queued on its condition
\* while a consumer is queued on the other.
C27_Progress ==
    /\ \A c \in Consumers :
          (cpc[c] # "idle" /\ csize[c] > 0) ~> (cpc[c] = "idle")
    /\ [](~(producerWait /\ consumerWait # {}))

\* A call that asks for at least one byte is in progress.
WantsBytes(c) == cpc[c] # "idle" /\ csize[c] > 0

\* C27, amended: whenever a call that asks for at least one byte is in
\* progress, some such call gets to copy out of the pool in the end (a
\* given call can be overtaken by the calls of other consumers for ever);
\* a call that asked for bytes returns at least one; and the producer is
\* never queued on its condition while a consumer is queued on the other.
C27_SomeProgress ==
    /\ (\E c \in Consumers : WantsBytes(c))
           ~> (\E c \in Consumers : WantsBytes(c) /\ cpc[c] = "c_take")
    /\ [][\A c \in Consumers :
             (WantsBytes(c) /\ cpc'[c] = "idle") =>
                 (cpc[c] = "c_take" /\ Len(delivered') > Len(delivered))]_vars
    /\ [](~(producerWait /\ consumerWait # {}))

\* C27 witness: a consumer that asked for bytes is about to copy out while
\* another one, which asked for bytes too, is still asleep.
C27_Witness ==
    \E c, d \in Consumers :
        /\ c # d
        /\ WantsBytes(c) /\ cpc[c] = "c_take"
        /\ WantsBytes(d) /\ cpc[d] = "c_sleep"

====
